---- MODULE Spec2Model ----
(***************************************************************************)
(* A model of @mcp-it/fastify: the plugin that turns the routes of a       *)
(* Fastify server into MCP tools (index.ts, kept in src/test/setup.ts      *)
(* lines 26-321), its services (schema.ts, tool-converter.ts,              *)
(* route-filter.ts, request-handler.ts) and the SSE session map.           *)
(*                                                                         *)
(* Text is a sequence of tokens (a token is an indivisible piece of a      *)
(* JavaScript string), so that concatenation, replace, split and join are  *)
(* computed and not assumed.  A JavaScript value is a record               *)
(*     [k |-> kind, s |-> text, c |-> entries]                             *)
(* where k is the typeof-like kind, s the text of a scalar and c the       *)
(* ordered own entries [key, val] of an object or array.                   *)
(***************************************************************************)
EXTENDS Integers, Sequences, FiniteSets, TLC

VARIABLES
    options,           \* the plugin's merged options (setup.ts 81-91)
    routes,            \* const routes: Route[] (setup.ts 104)
    origin,            \* history: origin[i] = number of the onRoute event that pushed routes[i]
    events,            \* history: the onRoute events so far, in order
    reply,             \* what the last handler run produced (list, call, http reply, pure result)
    activeTransports,  \* the module-level Map<string, SSEServerTransport> (setup.ts 46)
    conn,              \* per session id: the state of its streaming connection
    inbox,             \* per session id: messages handed to its transport
    input,             \* the argument tuple of the pure function under check
    streamableTransport \* the one StreamableHTTPServerTransport of the plugin (setup.ts 121-124)

vars == <<options, routes, origin, events, reply, activeTransports, conn, inbox, input,
          streamableTransport>>

-----------------------------------------------------------------------------
(* Bounds of the model *)

MaxRoutes == 2
MaxSessions == 2
MaxInbox == 1
StackLimit == 12

-----------------------------------------------------------------------------
(* Text *)

RECURSIVE JoinText(_, _)
\* Array.prototype.join on a list of texts
JoinText(list, sep) ==
    IF list = <<>> THEN <<>>
    ELSE IF Len(list) = 1 THEN list[1]
    ELSE list[1] \o sep \o JoinText(Tail(list), sep)

\* index of the first occurrence of token t in text, 0 when there is none
IndexOf(text, t) ==
    IF \E i \in 1..Len(text) : text[i] = t
    THEN CHOOSE i \in 1..Len(text) : text[i] = t /\ \A j \in 1..(i-1) : text[j] # t
    ELSE 0

\* String.prototype.replace(pattern, replacement) with a string pattern:
\* only the first occurrence is replaced
ReplaceFirst(text, t, by) ==
    LET i == IndexOf(text, t)
    IN IF i = 0 THEN text
       ELSE SubSeq(text, 1, i-1) \o by \o SubSeq(text, i+1, Len(text))

RECURSIVE SplitText(_, _)
\* String.prototype.split(separator): always at least one piece
SplitText(text, t) ==
    LET i == IndexOf(text, t)
    IN IF i = 0 THEN <<text>>
       ELSE <<SubSeq(text, 1, i-1)>> \o SplitText(SubSeq(text, i+1, Len(text)), t)

\* String.prototype.replace(/[/:{}]/g, "_")
ReplaceSlugChars(text) ==
    [i \in 1..Len(text) |-> IF text[i] \in {"/", ":", "{", "}"} THEN "_" ELSE text[i]]

-----------------------------------------------------------------------------
(* JavaScript values *)

Undef == [k |-> "undefined", s |-> <<>>, c |-> <<>>]
Null == [k |-> "null", s |-> <<>>, c |-> <<>>]
True == [k |-> "boolean", s |-> <<"true">>, c |-> <<>>]
False == [k |-> "boolean", s |-> <<"false">>, c |-> <<>>]
Num(t) == [k |-> "number", s |-> <<t>>, c |-> <<>>]
StrN(text) == [k |-> "string", s |-> text, c |-> <<>>]
S(t) == StrN(<<t>>)
E(key, val) == [key |-> <<key>>, val |-> val]
Obj(entries) == [k |-> "object", s |-> <<>>, c |-> entries]
Arr(items) ==
    [k |-> "array", s |-> <<>>,
     c |-> [i \in 1..Len(items) |-> [key |-> <<ToString(i-1)>>, val |-> items[i]]]]

\* an uncaught exception, carried as a value
Thrown(name) == [k |-> "throw", s |-> <<name>>, c |-> <<>>]
IsThrown(v) == v.k = "throw"

\* ToBoolean
Truthy(v) ==
    CASE v.k \in {"undefined", "null"} -> FALSE
      [] v.k = "boolean" -> v.s = <<"true">>
      [] v.k = "number" -> v.s \notin {<<"0">>, <<"NaN">>}
      [] v.k = "string" -> v.s # <<>>
      [] OTHER -> TRUE

\* a || b
OrElse(a, b) == IF Truthy(a) THEN a ELSE b

IsObject(v) == v.k \in {"object", "array"}

HasKey(v, key) == IsObject(v) /\ \E i \in 1..Len(v.c) : v.c[i].key = key

\* v[key] for an own property; a key the value does not own reads as undefined
\* (inherited properties of Object.prototype are outside the key alphabet)
Get(v, key) ==
    IF HasKey(v, key)
    THEN v.c[CHOOSE i \in 1..Len(v.c) : v.c[i].key = key].val
    ELSE Undef

\* v?.[name] with a one-token name
Field(v, name) == Get(v, <<name>>)

\* Object.keys
Keys(v) == [i \in 1..Len(v.c) |-> v.c[i].key]

-----------------------------------------------------------------------------
(* services/schema.ts *)

\* getSchemaType: the JSON Schema type of a schema node
getSchemaType(schema) ==
    IF ~Truthy(schema) THEN S("string")
    ELSE IF Truthy(Field(schema, "type")) THEN Field(schema, "type")
    ELSE IF Truthy(Field(schema, "properties")) THEN S("object")
    ELSE IF Truthy(Field(schema, "items")) THEN S("array")
    ELSE S("string")

\* schema.$ref.replace("#/", "").split("/")
RefPath(ref) == SplitText(ReplaceFirst(ref.s, "#/", <<>>), "/")

RECURSIVE WalkRef(_, _)
\* the loop over refPath: the fragment the path designates, or undefined as
\* soon as a segment reads as a falsy value
WalkRef(resolved, refPath) ==
    IF refPath = <<>> THEN resolved
    ELSE IF Truthy(Get(resolved, Head(refPath)))
         THEN WalkRef(Get(resolved, Head(refPath)), Tail(refPath))
         ELSE Undef

\* the first exception among the values of rebuilt entries, if any
FirstThrown(entries) ==
    IF \E i \in 1..Len(entries) : IsThrown(entries[i].val)
    THEN entries[CHOOSE i \in 1..Len(entries) :
                    /\ IsThrown(entries[i].val)
                    /\ \A j \in 1..(i-1) : ~IsThrown(entries[j].val)].val
    ELSE Undef

RECURSIVE resolveAt(_, _, _)
\* resolveSchemaReferences at call depth `depth`; the recursion has no cycle
\* detection, so a cyclic reference recurses until the call stack is
\* exhausted and the engine throws RangeError
resolveAt(schema, rootSchema, depth) ==
    IF depth > StackLimit THEN Thrown("RangeError")
    ELSE IF ~Truthy(schema) THEN schema
    ELSE IF IsObject(schema) THEN
        IF Truthy(Field(schema, "$ref")) THEN
            IF Field(schema, "$ref").k # "string"
            THEN Thrown("TypeError")   \* .replace is not a function
            ELSE LET resolved == WalkRef(rootSchema, RefPath(Field(schema, "$ref")))
                 IN IF Truthy(resolved)
                    THEN resolveAt(resolved, rootSchema, depth + 1)
                    ELSE schema        \* Can't resolve, return as is
        ELSE LET result == [i \in 1..Len(schema.c) |->
                              [key |-> schema.c[i].key,
                               val |-> resolveAt(schema.c[i].val, rootSchema, depth + 1)]]
             IN IF IsThrown(FirstThrown(result)) THEN FirstThrown(result)
                ELSE [schema EXCEPT !.c = result]
    ELSE schema

resolveSchemaReferences(schema, rootSchema) == resolveAt(schema, rootSchema, 1)

RECURSIVE generateExampleFromSchema(_)
\* generateExampleFromSchema: an example value for a schema node
generateExampleFromSchema(schema) ==
    IF ~Truthy(schema) THEN Undef
    ELSE LET type == getSchemaType(schema)
             props == Field(schema, "properties")
         IN CASE type = S("string") ->
                    OrElse(Field(schema, "example"), OrElse(Field(schema, "default"), S("string")))
              [] type \in {S("number"), S("integer")} ->
                    OrElse(Field(schema, "example"), OrElse(Field(schema, "default"), Num("0")))
              [] type = S("boolean") ->
                    OrElse(Field(schema, "example"), OrElse(Field(schema, "default"), False))
              [] type = S("array") ->
                    IF Truthy(Field(schema, "items"))
                    THEN Arr(<<generateExampleFromSchema(Field(schema, "items"))>>)
                    ELSE Arr(<<>>)
              [] type = S("object") ->
                    IF Truthy(props)
                    THEN Obj([i \in 1..Len(props.c) |->
                                [key |-> props.c[i].key,
                                 val |-> generateExampleFromSchema(props.c[i].val)]])
                    ELSE Obj(<<>>)
              [] OTHER -> Undef

-----------------------------------------------------------------------------
(* JSON text *)

\* a line break followed by `level` indentation units of two spaces
Indent(level) == <<"\n">> \o [i \in 1..level |-> "  "]

\* the entries JSON.stringify writes for an object: undefined values are left out
Written(v) == SelectSeq(v.c, LAMBDA e : e.val.k # "undefined")

RECURSIVE Pretty(_, _)
\* JSON.stringify(value, null, 2) of a defined value, at nesting `level`
Pretty(v, level) ==
    CASE v.k \in {"undefined", "null"} -> <<"null">>
      [] v.k \in {"boolean", "number"} -> v.s
      [] v.k = "string" -> <<"\"">> \o v.s \o <<"\"">>
      [] v.k = "array" ->
            IF v.c = <<>> THEN <<"[", "]">>
            ELSE <<"[">> \o Indent(level + 1)
                 \o JoinText([i \in 1..Len(v.c) |-> Pretty(v.c[i].val, level + 1)],
                             <<",">> \o Indent(level + 1))
                 \o Indent(level) \o <<"]">>
      [] v.k = "object" ->
            IF Written(v) = <<>> THEN <<"{", "}">>
            ELSE <<"{">> \o Indent(level + 1)
                 \o JoinText([i \in 1..Len(Written(v)) |->
                                <<"\"">> \o Written(v)[i].key \o <<"\"", ":", " ">>
                                \o Pretty(Written(v)[i].val, level + 1)],
                             <<",">> \o Indent(level + 1))
                 \o Indent(level) \o <<"}">>
      [] OTHER -> <<"null">>

\* JSON.stringify(value, null, 2) used in a template or concatenation: the
\* text of the JSON, or the text "undefined" when the value is undefined
StringifyText(v) == IF v.k = "undefined" THEN <<"undefined">> ELSE Pretty(v, 0)

-----------------------------------------------------------------------------
(* Objects under assignment, String(), Route *)

\* obj[key] = val on the ordered entries of an object: an existing key keeps
\* its place and takes the new value, a new key is appended
Put(entries, key, val) ==
    IF \E i \in 1..Len(entries) : entries[i].key = key
    THEN [i \in 1..Len(entries) |->
            IF entries[i].key = key THEN [key |-> key, val |-> val] ELSE entries[i]]
    ELSE Append(entries, [key |-> key, val |-> val])

\* String(value), as in template literals and string concatenation
ToText(v) ==
    CASE v.k = "undefined" -> <<"undefined">>
      [] v.k = "null" -> <<"null">>
      [] v.k = "object" -> <<"[object Object]">>
      [] v.k = "array" -> JoinText([i \in 1..Len(v.c) |->
                                      IF v.c[i].val.k \in {"undefined", "null"} THEN <<>>
                                      ELSE v.c[i].val.s], <<",">>)
      [] OTHER -> v.s

\* route.<name>: a property the Route object was built without reads as undefined
RouteField(route, name) == IF name \in DOMAIN route THEN route[name] ELSE Undef

\* array.includes(key) for an array of strings
Includes(array, key) ==
    IsObject(array) /\ \E i \in 1..Len(array.c) : array.c[i].val = StrN(key)

-----------------------------------------------------------------------------
(* services/route-filter.ts *)

\* a function value; s names the function
Fn(id) == [k |-> "function", s |-> <<id>>, c |-> <<>>]

\* The custom predicates (route: Route) => boolean | undefined a user may
\* configure as options.filter
CallFilter(filter, route) ==
    CASE filter = Fn("onlyGet") ->
            IF \E i \in 1..Len(route.methods) : route.methods[i] = "GET" THEN True ELSE False
      [] filter = Fn("untagged") ->
            IF Len(route.tags) = 0 THEN True ELSE Undef
      [] OTHER -> Undef

\* the predicate with the HEAD check made whatever skipHeadRoutes says
KeepRouteAlwaysSkippingHead(opts, route) ==
    IF \E i \in 1..Len(route.methods) : route.methods[i] = "HEAD"
    THEN FALSE
    ELSE IF /\ Truthy(Field(opts, "skipOptionsRoutes"))
            /\ \E i \in 1..Len(route.methods) : route.methods[i] = "OPTIONS"
    THEN FALSE
    ELSE IF /\ Truthy(Field(opts, "filter"))
            /\ ~Truthy(CallFilter(Field(opts, "filter"), route))
    THEN FALSE
    ELSE TRUE

\* the predicate of routes.filter(...) in filterRoutes
KeepRoute(opts, route) ==
    IF /\ Truthy(Field(opts, "skipHeadRoutes"))
       /\ \E i \in 1..Len(route.methods) : route.methods[i] = "HEAD"
    THEN FALSE
    ELSE IF /\ Truthy(Field(opts, "skipOptionsRoutes"))
            /\ \E i \in 1..Len(route.methods) : route.methods[i] = "OPTIONS"
    THEN FALSE
    ELSE IF /\ Truthy(Field(opts, "filter"))
            /\ ~Truthy(CallFilter(Field(opts, "filter"), route))
    THEN FALSE
    ELSE TRUE

RECURSIVE KeptIndices(_, _, _)
\* the positions Array.prototype.filter keeps, ascending from position i
KeptIndices(opts, list, i) ==
    IF i > Len(list) THEN <<>>
    ELSE (IF KeepRoute(opts, list[i]) THEN <<i>> ELSE <<>>) \o KeptIndices(opts, list, i + 1)

\* routeFilter(options).filterRoutes(routes)
filterRoutes(opts, list) ==
    LET kept == KeptIndices(opts, list, 1)
    IN [j \in 1..Len(kept) |-> list[kept[j]]]

-----------------------------------------------------------------------------
(* services/tool-converter.ts *)

\* the token of a Markdown code fence (three backquotes)
Fence == "[fence]"

\* asMDJson
asMDJson(obj) == <<Fence, "json\n">> \o StringifyText(obj) \o <<"\n", Fence>>

buildToolName(route) == route.name

\* `Tags: ${route.tags.join(", ")}`
TagsText(route) ==
    <<"Tags: ">> \o JoinText([i \in 1..Len(route.tags) |-> ToText(route.tags[i])], <<", ">>)

\* the pieces pushed to the description array before filter(Boolean)
DescriptionPieces(opts, route) ==
    <<route.summary, route.description>>
    \o (IF Len(route.tags) > 0 THEN <<StrN(TagsText(route))>> ELSE <<>>)
    \o (IF Truthy(route.response) /\ Truthy(Field(opts, "describeFullSchema"))
        THEN <<S("### Response:")>>
             \o (IF Truthy(generateExampleFromSchema(route.response))
                 THEN <<StrN(<<"**Example Response:**\n">>
                             \o asMDJson(generateExampleFromSchema(route.response)))>>
                 ELSE <<>>)
             \o <<StrN(<<"**Output Schema:**">> \o asMDJson(route.response))>>
        ELSE <<>>)

\* buildToolDescription of services/tool-converter.ts
buildToolDescription(opts, route) ==
    LET kept == SelectSeq(DescriptionPieces(opts, route), Truthy)
        text == JoinText([i \in 1..Len(kept) |-> ToText(kept[i])], <<"\n\n">>)
    IN OrElse(StrN(text), route.name)

\* buildToolDescription of the other copy of the converter (unnamed/part_000):
\* it starts from route.summary and appends with +=
buildToolDescriptionAppending(opts, route) ==
    LET d0 == route.summary
        d1 == IF Truthy(route.description)
              THEN StrN(ToText(d0) \o <<"\n\n">> \o ToText(route.description))
              ELSE d0
        d2 == IF Len(route.tags) > 0
              THEN StrN(ToText(d1) \o <<"\n\n">> \o TagsText(route))
              ELSE d1
        d3 == IF Truthy(route.response) /\ Truthy(Field(opts, "describeFullSchema"))
              THEN StrN(ToText(d2) \o <<"\n\n### Response:">>
                        \o (IF Truthy(generateExampleFromSchema(route.response))
                            THEN <<"\n\n**Example Response:**\n", Fence, "json\n">>
                                 \o StringifyText(generateExampleFromSchema(route.response))
                                 \o <<"\n", Fence>>
                            ELSE <<>>)
                        \o <<"\n\n**Output Schema:**\n", Fence, "json\n">>
                        \o StringifyText(route.response) \o <<"\n", Fence>>)
              ELSE d2
    IN OrElse(d3, route.name)

\* the group's declared properties: Object.entries(group.properties || {})
GroupEntries(group) ==
    IF Truthy(Field(group, "properties")) THEN Field(group, "properties").c ELSE <<>>

\* the description each group gives a property
GroupDescription(label, key, schema) ==
    IF label = "Header: "
    THEN (IF Field(schema, "description").k \in {"undefined", "null"}
          THEN StrN(<<label>> \o key) ELSE Field(schema, "description"))
    ELSE StrN(<<label>> \o key)

RECURSIVE AddGroup(_, _, _, _)
\* one of the four loops of buildToolInputSchema, from entry i of the group on:
\* acc = [properties, required]
AddGroup(acc, group, label, i) ==
    IF ~Truthy(group) \/ i > Len(GroupEntries(group)) THEN acc
    ELSE LET key == GroupEntries(group)[i].key
             schema == GroupEntries(group)[i].val
             prop == Obj(<<E("type", getSchemaType(schema)),
                           E("title", StrN(key)),
                           E("description", GroupDescription(label, key, schema))>>)
         IN AddGroup([properties |-> Put(acc.properties, key, prop),
                      required |-> IF Includes(Field(group, "required"), key)
                                   THEN Append(acc.required, StrN(key))
                                   ELSE acc.required],
                     group, label, i + 1)

\* buildToolInputSchema with the four groups taken in the opposite order
buildToolInputSchemaBodyFirst(route) ==
    LET a0 == [properties |-> <<>>, required |-> <<>>]
        a1 == AddGroup(a0, RouteField(route, "body"), "Body parameter: ", 1)
        a2 == AddGroup(a1, RouteField(route, "querystring"), "Query parameter: ", 1)
        a3 == AddGroup(a2, RouteField(route, "params"), "Path parameter: ", 1)
        a4 == AddGroup(a3, RouteField(route, "headers"), "Header: ", 1)
    IN Obj(<<E("type", S("object")),
             E("properties", Obj(a4.properties)),
             E("required", IF Len(a4.required) > 0 THEN Arr(a4.required) ELSE Undef),
             E("title", StrN(ToText(route.name) \o <<"Parameters">>))>>)

\* buildToolInputSchema
buildToolInputSchema(route) ==
    LET a0 == [properties |-> <<>>, required |-> <<>>]
        a1 == AddGroup(a0, RouteField(route, "headers"), "Header: ", 1)
        a2 == AddGroup(a1, RouteField(route, "params"), "Path parameter: ", 1)
        a3 == AddGroup(a2, RouteField(route, "querystring"), "Query parameter: ", 1)
        a4 == AddGroup(a3, RouteField(route, "body"), "Body parameter: ", 1)
    IN Obj(<<E("type", S("object")),
             E("properties", Obj(a4.properties)),
             E("required", IF Len(a4.required) > 0 THEN Arr(a4.required) ELSE Undef),
             E("title", StrN(ToText(route.name) \o <<"Parameters">>))>>)

\* convertRouteToTool
convertRouteToTool(opts, route) ==
    [name |-> buildToolName(route),
     description |-> buildToolDescription(opts, route),
     inputSchema |-> buildToolInputSchema(route)]

-----------------------------------------------------------------------------
(* JSON.parse *)

\* the token at position i, "" past the end of the text
At(text, i) == IF i \in 1..Len(text) THEN text[i] ELSE ""

WhiteSpace == {" ", "  ", "\n"}

\* number literals of the token alphabet and the text JSON.stringify gives the
\* number each one denotes
NumberTokens == {"0", "1", "42", "1.0"}
NumberText(t) == IF t = "1.0" THEN "1" ELSE t

RECURSIVE SkipWs(_, _)
SkipWs(text, i) == IF At(text, i) \in WhiteSpace THEN SkipWs(text, i + 1) ELSE i

\* position of the first quote at or after i, 0 when there is none
RECURSIVE QuoteFrom(_, _)
QuoteFrom(text, i) ==
    IF i > Len(text) THEN 0
    ELSE IF text[i] = "\"" THEN i ELSE QuoteFrom(text, i + 1)

NoParse == [ok |-> FALSE, val |-> Undef, next |-> 0]
Parsed(v, next) == [ok |-> TRUE, val |-> v, next |-> next]

RECURSIVE ParseValue(_, _)
RECURSIVE ParseMember(_, _, _)
RECURSIVE ParseElement(_, _, _)

\* a JSON value starting at or after position i0
ParseValue(text, i0) ==
    LET i == SkipWs(text, i0)
        t == At(text, i)
    IN CASE t = "{" ->
                IF At(text, SkipWs(text, i + 1)) = "}"
                THEN Parsed(Obj(<<>>), SkipWs(text, i + 1) + 1)
                ELSE ParseMember(text, SkipWs(text, i + 1), <<>>)
         [] t = "[" ->
                IF At(text, SkipWs(text, i + 1)) = "]"
                THEN Parsed(Arr(<<>>), SkipWs(text, i + 1) + 1)
                ELSE ParseElement(text, i + 1, <<>>)
         [] t = "\"" ->
                IF QuoteFrom(text, i + 1) = 0 THEN NoParse
                ELSE Parsed(StrN(SubSeq(text, i + 1, QuoteFrom(text, i + 1) - 1)),
                            QuoteFrom(text, i + 1) + 1)
         [] t = "true" -> Parsed(True, i + 1)
         [] t = "false" -> Parsed(False, i + 1)
         [] t = "null" -> Parsed(Null, i + 1)
         [] t \in NumberTokens -> Parsed(Num(NumberText(t)), i + 1)
         [] OTHER -> NoParse

\* the members of an object from the key at position i on; a repeated key
\* keeps its first place and takes the last value
ParseMember(text, i, acc) ==
    IF At(text, i) # "\"" \/ QuoteFrom(text, i + 1) = 0 THEN NoParse
    ELSE LET q == QuoteFrom(text, i + 1)
             key == SubSeq(text, i + 1, q - 1)
             colon == SkipWs(text, q + 1)
         IN IF At(text, colon) # ":" THEN NoParse
            ELSE LET v == ParseValue(text, colon + 1)
                 IN IF ~v.ok THEN NoParse
                    ELSE LET d == SkipWs(text, v.next)
                         IN CASE At(text, d) = "," ->
                                    ParseMember(text, SkipWs(text, d + 1), Put(acc, key, v.val))
                              [] At(text, d) = "}" ->
                                    Parsed(Obj(Put(acc, key, v.val)), d + 1)
                              [] OTHER -> NoParse

\* the elements of an array from position i on
ParseElement(text, i, acc) ==
    LET v == ParseValue(text, i)
    IN IF ~v.ok THEN NoParse
       ELSE LET d == SkipWs(text, v.next)
            IN CASE At(text, d) = "," -> ParseElement(text, d + 1, Append(acc, v.val))
                 [] At(text, d) = "]" -> Parsed(Arr(Append(acc, v.val)), d + 1)
                 [] OTHER -> NoParse

\* JSON.parse(text): the value, or the SyntaxError it throws
JSONparse(text) ==
    LET v == ParseValue(text, 1)
    IN IF v.ok /\ SkipWs(text, v.next) > Len(text) THEN v.val ELSE Thrown("SyntaxError")

-----------------------------------------------------------------------------
(* services/request-handler.ts *)

RECURSIVE ClassifyQueryFirst(_, _, _, _)
\* the loop with the query schema consulted before the path-param schema
ClassifyQueryFirst(payload, route, entries, i) ==
    IF i > Len(entries) THEN payload
    ELSE LET key == entries[i].key
             value == entries[i].val
         IN ClassifyQueryFirst(
              IF Truthy(Get(Field(RouteField(route, "querystring"), "properties"), key))
              THEN [payload EXCEPT !.query = Put(@, key, value)]
              ELSE IF Truthy(Get(Field(RouteField(route, "params"), "properties"), key))
              THEN [payload EXCEPT !.params = Put(@, key, value)]
              ELSE [payload EXCEPT !.body = Put(@, key, value)],
              route, entries, i + 1)

RECURSIVE Classify(_, _, _, _)
\* the loop of prepareToolPayload over Object.entries(args), from entry i on
Classify(payload, route, entries, i) ==
    IF i > Len(entries) THEN payload
    ELSE LET key == entries[i].key
             value == entries[i].val
         IN Classify(
              IF Truthy(Get(Field(RouteField(route, "params"), "properties"), key))
              THEN [payload EXCEPT !.params = Put(@, key, value)]
              ELSE IF Truthy(Get(Field(RouteField(route, "querystring"), "properties"), key))
              THEN [payload EXCEPT !.query = Put(@, key, value)]
              ELSE [payload EXCEPT !.body = Put(@, key, value)],
              route, entries, i + 1)

\* prepareToolPayload: the entries of the params, query and body buckets
prepareToolPayload(route, args) ==
    Classify([params |-> <<>>, query |-> <<>>, body |-> <<>>], route, args.c, 1)

\* encodeURIComponent, token by token
EncodeToken(t) ==
    CASE t = "/" -> "%2F"
      [] t = ":" -> "%3A"
      [] t = " " -> "%20"
      [] t = "?" -> "%3F"
      [] OTHER -> t
encodeURIComponent(text) == [i \in 1..Len(text) |-> EncodeToken(text[i])]

\* position of the first occurrence of the token sequence pat in text, 0 if none
FindSeq(text, pat) ==
    LET hits == {i \in 1..(Len(text) - Len(pat) + 1) : SubSeq(text, i, i + Len(pat) - 1) = pat}
    IN IF hits = {} THEN 0 ELSE CHOOSE i \in hits : \A j \in hits : i <= j

\* url.replace(pattern, replacement) with a string pattern
ReplaceFirstSeq(text, pat, by) ==
    LET i == FindSeq(text, pat)
    IN IF i = 0 THEN text
       ELSE SubSeq(text, 1, i - 1) \o by \o SubSeq(text, i + Len(pat), Len(text))

RECURSIVE SubstituteParams(_, _, _)
\* the loop that replaces path parameters in the URL, from params entry i on
SubstituteParams(url, params, i) ==
    IF i > Len(params) THEN url
    ELSE SubstituteParams(
            ReplaceFirstSeq(url, <<":">> \o params[i].key,
                            encodeURIComponent(ToText(params[i].val))),
            params, i + 1)

\* a formatter that never parses
formatToolResponseRaw(responseBody) ==
    [content |-> <<[type |-> "text", text |-> responseBody]>>]

\* formatToolResponse
formatToolResponse(responseBody) ==
    LET responseJSON == JSONparse(responseBody)
    IN IF IsThrown(responseJSON)
       THEN [content |-> <<[type |-> "text", text |-> responseBody]>>]
       ELSE [content |-> <<[type |-> "text", text |-> StringifyText(responseJSON)]>>]

\* the request handleToolCall hands to fastify.inject
InjectRequest(route, args) ==
    LET payload == prepareToolPayload(route, args)
    IN [method |-> route.methods[1],
        url |-> SubstituteParams(route.url, payload.params, 1),
        query |-> Obj(payload.query),
        payload |-> IF Len(payload.body) > 0 THEN Obj(payload.body) ELSE Undef]

\* handleToolCall run to its end: `outcome` is what fastify.inject does with
\* the request, it resolves with a response [status, body] or rejects.
\* Object.entries(args) throws TypeError when args is undefined.
handleToolCall(route, args, outcome) ==
    IF ~IsObject(args)
    THEN [failed |-> TRUE, error |-> <<"TypeError">>, injected |-> <<>>]
    ELSE IF outcome.rejects
    THEN [failed |-> TRUE, error |-> <<"inject rejected">>,
          injected |-> <<InjectRequest(route, args)>>]
    ELSE [failed |-> FALSE, result |-> formatToolResponse(outcome.body),
          injected |-> <<InjectRequest(route, args)>>]

-----------------------------------------------------------------------------
(* index.ts (src/test/setup.ts 26-321): options *)

\* the defaults the plugin merges the given options over
DefaultOptions ==
    <<E("name", S("Fastify MCP")),
      E("description", S("MCP server for Fastify")),
      E("mountPath", S("/mcp")),
      E("describeFullSchema", False),
      E("addDebugEndpoint", False),
      E("transportType", S("sse")),
      E("skipHeadRoutes", True),
      E("skipOptionsRoutes", True)>>

RECURSIVE Spread(_, _, _)
\* { ...acc, ...given }: the own entries of `given` assigned in order
Spread(acc, given, i) ==
    IF i > Len(given) THEN acc
    ELSE Spread(Put(acc, given[i].key, given[i].val), given, i + 1)

\* const options = { ...defaults, ..._options }
MergeOptions(given) == Obj(Spread(DefaultOptions, given.c, 1))

-----------------------------------------------------------------------------
(* index.ts: the onRoute hook *)

HTTPMethods == {"DELETE", "GET", "HEAD", "PATCH", "POST", "PUT", "OPTIONS"}

\* routeOptions.config?.mcp
Mcp(routeOptions) == Field(routeOptions.config, "mcp")

\* `${routeOptions.method}`: a string as it is, an array joined with commas
MethodText(routeOptions) ==
    IF routeOptions.methodIsArray
    THEN JoinText([i \in 1..Len(routeOptions.method) |-> <<routeOptions.method[i]>>], <<",">>)
    ELSE <<routeOptions.method[1]>>

\* the generated name: `${method}_${url.replace(/[/:{}]/g, "_")}`
GeneratedName(routeOptions) ==
    MethodText(routeOptions) \o <<"_">> \o ReplaceSlugChars(routeOptions.url)

\* the name with operationId tried before the per-route name
RouteNameOperationIdFirst(routeOptions) ==
    OrElse(Field(routeOptions.schema, "operationId"),
           OrElse(Field(Mcp(routeOptions), "name"),
                  StrN(GeneratedName(routeOptions))))

\* const name = config.mcp.name || schema.operationId || generated
RouteName(routeOptions) ==
    OrElse(Field(Mcp(routeOptions), "name"),
           OrElse(Field(routeOptions.schema, "operationId"),
                  StrN(GeneratedName(routeOptions))))

\* const tags = Array.isArray(tagList) ? [...tagList] : []
RouteTags(routeOptions) ==
    LET tagList == OrElse(Field(routeOptions.schema, "tags"), Arr(<<>>))
    IN IF tagList.k = "array" THEN [i \in 1..Len(tagList.c) |-> tagList.c[i].val] ELSE <<>>

\* the method list taken as it is given
RouteMethodsUnfiltered(routeOptions) == routeOptions.method

\* methodList.filter(valid HTTP method)
RouteMethods(routeOptions) == SelectSeq(routeOptions.method, LAMBDA m : m \in HTTPMethods)

\* the object literal handed to routes.push; it has no headers property
RouteOf(routeOptions) ==
    LET schema == routeOptions.schema
    IN [methods |-> RouteMethods(routeOptions),
        url |-> routeOptions.url,
        name |-> RouteName(routeOptions),
        summary |-> Field(schema, "summary"),
        description |-> OrElse(Field(Mcp(routeOptions), "description"),
                               Field(schema, "description")),
        tags |-> RouteTags(routeOptions),
        querystring |-> resolveSchemaReferences(Field(schema, "querystring"), schema),
        body |-> resolveSchemaReferences(Field(schema, "body"), schema),
        params |-> resolveSchemaReferences(Field(schema, "params"), schema),
        response |-> resolveSchemaReferences(
                        OrElse(Field(Field(schema, "response"), "200"),
                               Field(Field(schema, "response"), "2xx")),
                        schema)]

\* the exception the object literal raises while it is evaluated, if any
RouteThrown(route) ==
    FirstThrown(<<[val |-> route.querystring], [val |-> route.body],
                  [val |-> route.params], [val |-> route.response]>>)

\* the hook without its check of config.mcp.hidden
HookOutcomeIgnoringHidden(routeOptions) ==
    IF Len(RouteMethods(routeOptions)) = 0 THEN "no-method"
    ELSE IF IsThrown(RouteThrown(RouteOf(routeOptions))) THEN "throw"
    ELSE "push"

\* what one run of the hook does: "hidden" and "no-method" return early,
\* "throw" leaves by an exception, "push" appends the route
HookOutcome(routeOptions) ==
    IF Truthy(Field(Mcp(routeOptions), "hidden")) THEN "hidden"
    ELSE IF Len(RouteMethods(routeOptions)) = 0 THEN "no-method"
    ELSE IF IsThrown(RouteThrown(RouteOf(routeOptions))) THEN "throw"
    ELSE "push"

\* fastify.addHook("onRoute", ...) run for one registered route
OnRoute(routeOptions) ==
    /\ events' = Append(events, routeOptions)
    /\ IF HookOutcome(routeOptions) = "push"
       THEN /\ routes' = Append(routes, RouteOf(routeOptions))
            /\ origin' = Append(origin, Len(events) + 1)
       ELSE UNCHANGED <<routes, origin>>
    /\ reply' = [op |-> "onRoute", outcome |-> HookOutcome(routeOptions)]
    /\ UNCHANGED <<options, activeTransports, conn, inbox, input, streamableTransport>>

-----------------------------------------------------------------------------
(* index.ts: the protocol handlers *)

\* a list-tools handler that converts the whole registry
ListToolsUnfiltered ==
    /\ reply' = [op |-> "list",
                 tools |-> [i \in 1..Len(routes) |-> convertRouteToTool(options, routes[i])],
                 from |-> origin]
    /\ UNCHANGED <<options, routes, origin, events, activeTransports, conn, inbox, input,
                 streamableTransport>>

\* mcpServer.setRequestHandler(ListToolsRequestSchema, ...)
ListTools ==
    /\ LET filteredRoutes == filterRoutes(options, routes)
           kept == KeptIndices(options, routes, 1)
       IN reply' = [op |-> "list",
                    tools |-> [i \in 1..Len(filteredRoutes) |->
                                 convertRouteToTool(options, filteredRoutes[i])],
                    from |-> [i \in 1..Len(kept) |-> origin[kept[i]]]]
    /\ UNCHANGED <<options, routes, origin, events, activeTransports, conn, inbox, input,
                 streamableTransport>>

\* find that keeps the last match
FindLastByName(list, name) ==
    IF \E i \in 1..Len(list) : list[i].name = name
    THEN CHOOSE i \in 1..Len(list) :
            list[i].name = name /\ \A j \in (i+1)..Len(list) : list[j].name # name
    ELSE 0

\* find with a match on the first token of the name only
FindByFirstToken(list, name) ==
    IF \E i \in 1..Len(list) : Head(list[i].name.s) = Head(name.s)
    THEN CHOOSE i \in 1..Len(list) :
            /\ Head(list[i].name.s) = Head(name.s)
            /\ \A j \in 1..(i-1) : Head(list[j].name.s) # Head(name.s)
    ELSE 0

\* filteredRoutes.find((r) => r.name === name): the position in `list` of
\* the first route with that name, 0 when find returns undefined
FindByName(list, name) ==
    IF \E i \in 1..Len(list) : list[i].name = name
    THEN CHOOSE i \in 1..Len(list) :
            list[i].name = name /\ \A j \in 1..(i-1) : list[j].name # name
    ELSE 0

\* `Tool '${name}' not found`
NotFoundMessage(name) == <<"Tool '">> \o ToText(name) \o <<"' not found">>

\* mcpServer.setRequestHandler(CallToolRequestSchema, ...) run to its end.
\* `name` and `args` are request.params.name and request.params.arguments;
\* `outcome` is what fastify.inject does with the request: it resolves with
\* a response [status, body] or rejects.
CallTool(name, args, outcome) ==
    LET filteredRoutes == filterRoutes(options, routes)
        at == FindByName(filteredRoutes, name)
        target == origin[KeptIndices(options, routes, 1)[at]]
        done == handleToolCall(filteredRoutes[at], args, outcome)
    IN /\ reply' =
            IF at = 0
            THEN [op |-> "call", name |-> name, failed |-> TRUE,
                  error |-> NotFoundMessage(name), injected |-> <<>>, target |-> 0]
            ELSE IF done.failed
            THEN [op |-> "call", name |-> name, failed |-> TRUE,
                  error |-> done.error, injected |-> done.injected, target |-> target]
            ELSE [op |-> "call", name |-> name, failed |-> FALSE,
                  result |-> done.result, injected |-> done.injected, target |-> target]
       /\ UNCHANGED <<options, routes, origin, events, activeTransports, conn, inbox, input,
                 streamableTransport>>

-----------------------------------------------------------------------------
(* Inputs: texts, schemas, registered routes *)

HelloUrl == <<"/", "hello">>
UserUrl == <<"/", "users", "/", ":", "id">>
MyHello == <<"my", "_", "hello">>

\* { $ref: "#/definitions/<name>" }
Ref(name) == Obj(<<E("$ref", StrN(<<"#/", "definitions", "/", name>>))>>)

\* a route as the framework hands it to the hook
RouteOptions(method, isArray, url, config, schema) ==
    [method |-> method, methodIsArray |-> isArray, url |-> url,
     config |-> config, schema |-> schema]

NoConfig == Obj(<<>>)
HelloSchema ==
    <<E("operationId", S("hello")), E("summary", S("Hello World")),
      E("description", S("Says hello"))>>
MyHelloConfig ==
    Obj(<<E("mcp", Obj(<<E("name", StrN(MyHello)),
                         E("description", S("The is my hello tool"))>>))>>)
AuthHeaders ==
    Obj(<<E("type", S("object")),
          E("properties",
            Obj(<<E("authorization",
                    Obj(<<E("type", S("string")),
                          E("description", S("Authorization header as a bearer token"))>>)),
                  E("x-trace", Obj(<<E("type", S("integer"))>>))>>)),
          E("required", Arr(<<S("authorization")>>))>>)
UserSchema ==
    Obj(<<E("operationId", S("hello")),
          E("tags", Arr(<<S("users")>>)),
          E("params", Obj(<<E("properties", Obj(<<E("id", Ref("Id"))>>)),
                            E("required", Arr(<<S("id")>>))>>)),
          E("querystring", Obj(<<E("properties", Obj(<<E("verbose", Obj(<<E("type", S("boolean"))>>))>>))>>)),
          E("body", Ref("Missing")),
          E("response", Obj(<<E("200", Obj(<<E("type", S("object")),
                                             E("properties", Obj(<<E("id", Ref("Id"))>>))>>))>>)),
          E("definitions", Obj(<<E("Id", Obj(<<E("type", S("integer"))>>))>>))>>)
CyclicSchema ==
    Obj(<<E("body", Ref("Loop")),
          E("definitions", Obj(<<E("Loop", Obj(<<E("properties", Obj(<<E("next", Ref("Loop"))>>))>>))>>))>>)

\* the routes registered on the server in the plugin specification
PluginEvents ==
    { RouteOptions(<<"GET">>, FALSE, HelloUrl, NoConfig, Undef),
      RouteOptions(<<"HEAD">>, FALSE, HelloUrl, NoConfig, Undef),
      RouteOptions(<<"GET">>, FALSE, HelloUrl, NoConfig, Obj(HelloSchema)),
      RouteOptions(<<"GET">>, FALSE, HelloUrl, MyHelloConfig,
                   Obj(HelloSchema \o <<E("headers", AuthHeaders)>>)),
      RouteOptions(<<"GET">>, FALSE, <<"/", "secret">>,
                   Obj(<<E("mcp", Obj(<<E("hidden", True)>>))>>), Obj(HelloSchema)),
      RouteOptions(<<"POST", "OPTIONS">>, TRUE, UserUrl, NoConfig, UserSchema),
      RouteOptions(<<"PROPFIND">>, FALSE, HelloUrl, NoConfig, Obj(HelloSchema)),
      RouteOptions(<<"PUT">>, FALSE, UserUrl, NoConfig, CyclicSchema) }

\* the options the plugin is registered with in the plugin specification
PluginOptions ==
    { Obj(a \o b \o c) :
        a \in {<<>>, <<E("skipHeadRoutes", False)>>},
        b \in {<<>>, <<E("skipOptionsRoutes", False)>>},
        c \in {<<>>, <<E("filter", Fn("onlyGet"))>>} }

\* the call-tool requests of the plugin specification
CallNames ==
    { S("hello"), StrN(MyHello), StrN(<<"HEAD", "_", "_", "hello">>), S("my") }
CallArguments ==
    { Undef, Obj(<<E("authorization", S("Bearer ia")), E("id", Num("42"))>>) }
InjectOutcomes ==
    { [rejects |-> FALSE, status |-> 200, body |-> <<"Hello World">>],
      [rejects |-> TRUE, status |-> 0, body |-> <<>>] }

-----------------------------------------------------------------------------
(* The plugin: registration, list-tools and call-tool *)

SessionIds == 1..MaxSessions

\* the transports after the plugin has started: no session yet, and in
\* streamableHttp mode the one transport, made and connected to the server
NoSessions ==
    /\ activeTransports = <<>>
    /\ conn = [id \in SessionIds |-> "unused"]
    /\ inbox = [id \in SessionIds |-> 0]
    /\ streamableTransport =
          IF Field(options, "transportType") = S("streamableHttp")
          THEN [created |-> 1, connects |-> 1, handled |-> 0]
          ELSE [created |-> 0, connects |-> 0, handled |-> 0]

Init ==
    /\ options \in {MergeOptions(given) : given \in PluginOptions}
    /\ routes = <<>>
    /\ origin = <<>>
    /\ events = <<>>
    /\ reply = [op |-> "none"]
    /\ input = Undef
    /\ NoSessions

Register ==
    \E routeOptions \in PluginEvents :
        Len(events) < MaxRoutes /\ OnRoute(routeOptions)

Call ==
    \E name \in CallNames, args \in CallArguments, outcome \in InjectOutcomes :
        CallTool(name, args, outcome)

Next == Register \/ ListTools \/ Call

Spec == Init /\ [][Next]_vars

-----------------------------------------------------------------------------
(* Registration alone, over every combination of the naming inputs *)

MaxRegistrations == 1

RegistryEvents ==
    { RouteOptions(m.method, m.isArray, url,
                   Obj(<<E("mcp", Obj(hidden \o name))>>),
                   Obj(operationId)) :
        m \in { [method |-> <<"GET">>, isArray |-> FALSE],
                [method |-> <<"GET", "POST">>, isArray |-> TRUE],
                [method |-> <<"PROPFIND">>, isArray |-> FALSE],
                [method |-> <<"PROPFIND", "GET">>, isArray |-> TRUE] },
        url \in { HelloUrl, UserUrl, <<"/", "files", "/", "{", "name", "}">> },
        hidden \in { <<>>, <<E("hidden", True)>> },
        name \in { <<>>, <<E("name", StrN(<<>>))>>, <<E("name", StrN(MyHello))>> },
        operationId \in { <<>>, <<E("operationId", StrN(<<>>))>>,
                          <<E("operationId", S("hello"))>> } }

InitRegistry ==
    /\ options = MergeOptions(Obj(<<>>))
    /\ routes = <<>>
    /\ origin = <<>>
    /\ events = <<>>
    /\ reply = [op |-> "none"]
    /\ input = Undef
    /\ NoSessions

RegisterRoute ==
    \E routeOptions \in RegistryEvents :
        Len(events) < MaxRegistrations /\ OnRoute(routeOptions)

NextRegistry == RegisterRoute

SpecRegistry == InitRegistry /\ [][NextRegistry]_vars

-----------------------------------------------------------------------------
(* The route filter, stated on its own terms *)

Enabled(opts, flag) == Truthy(Field(opts, flag))

\* the three conditions under which a descriptor stays in the catalogue
Accepted(opts, route) ==
    /\ ~(Enabled(opts, "skipHeadRoutes") /\ "HEAD" \in {route.methods[i] : i \in 1..Len(route.methods)})
    /\ ~(Enabled(opts, "skipOptionsRoutes") /\ "OPTIONS" \in {route.methods[i] : i \in 1..Len(route.methods)})
    /\ (Field(opts, "filter").k = "undefined" \/ Truthy(CallFilter(Field(opts, "filter"), route)))

-----------------------------------------------------------------------------
(* Claims on the plugin *)

MarkedHidden(routeOptions) ==
    Truthy(Field(Field(routeOptions.config, "mcp"), "hidden"))

\* C1: a route whose per-route config marks it hidden at registration
\* creates no registry entry: no descriptor of the registry, no tool of a
\* list-tools result and no route a call-tool request is dispatched to
\* comes from a registration that was marked hidden, and the registry
\* holds no descriptor with the method and URL of a hidden registration,
\* whatever the filter configuration.
C1_HiddenRouteNeverExposed ==
    /\ \A i \in 1..Len(routes) :
          /\ ~MarkedHidden(events[origin[i]])
          /\ \A n \in 1..Len(events) :
                MarkedHidden(events[n]) =>
                    ~(routes[i].url = events[n].url /\ routes[i].methods = events[n].method)
    /\ reply.op = "list" =>
          /\ Len(reply.tools) = Len(reply.from)
          /\ \A j \in 1..Len(reply.from) : ~MarkedHidden(events[reply.from[j]])
    /\ (reply.op = "call" /\ reply.target # 0) => ~MarkedHidden(events[reply.target])
    /\ (reply.op = "call" /\ reply.target = 0) => reply.injected = <<>>

\* a hidden route was registered, another route too, and the catalogue
\* listed afterwards is not empty
C1_Witness ==
    /\ reply.op = "list"
    /\ Len(reply.tools) > 0
    /\ \E n \in 1..Len(events) : MarkedHidden(events[n])

\* C4 (as claimed): for a route registered with a headers schema that
\* declares a property k, the listed tool has inputSchema.properties[k] =
\* {type, title: k, description: own description or "Header: k"} and k is
\* required whenever the headers schema requires it.
C4_HeaderPropertiesListed ==
    reply.op = "list" =>
        \A j \in 1..Len(reply.tools) :
            LET headers == Field(events[reply.from[j]].schema, "headers")
                declared == Field(headers, "properties")
                listed == Field(reply.tools[j].inputSchema, "properties")
            IN \A n \in 1..Len(declared.c) :
                  LET k == declared.c[n].key
                      own == Field(declared.c[n].val, "description")
                  IN /\ Get(listed, k) =
                          Obj(<<E("type", getSchemaType(declared.c[n].val)),
                                E("title", StrN(k)),
                                E("description",
                                  IF own.k = "undefined" THEN StrN(<<"Header: ">> \o k) ELSE own)>>)
                     /\ Includes(Field(headers, "required"), k) =>
                          Includes(Field(reply.tools[j].inputSchema, "required"), k)

\* C6: a call-tool request whose name equals the name of no route that
\* passes the filter fails with the error "Tool '<name>' not found" and
\* fastify.inject is not invoked for it.
C6_UnknownToolFails ==
    (/\ reply.op = "call"
     /\ \A i \in 1..Len(routes) :
           Accepted(options, routes[i]) => routes[i].name # reply.name)
    => /\ reply.failed
       /\ reply.error = <<"Tool '">> \o reply.name.s \o <<"' not found">>
       /\ reply.injected = <<>>

\* the call named a route of the registry that the filter drops
C6_Witness ==
    /\ reply.op = "call"
    /\ reply.failed
    /\ reply.injected = <<>>
    /\ \E i \in 1..Len(routes) :
          routes[i].name = reply.name /\ ~Accepted(options, routes[i])

-----------------------------------------------------------------------------
(* Claims on registration *)

\* a non-empty string was given
Given(v) == v.k = "string" /\ v.s # <<>>

\* C2: the tool name of a registered route is the per-route override name
\* if given, else the schema's operationId if given, else the method text,
\* "_" and the URL with every "/", ":", "{" and "}" replaced by "_" (GET
\* /hello gives GET__hello; the method text of a route registered with a
\* list of methods is the list joined by commas).
C2_NamePrecedence ==
    \A i \in 1..Len(routes) :
        LET routeOptions == events[origin[i]]
            override == Field(Field(routeOptions.config, "mcp"), "name")
            operationId == Field(routeOptions.schema, "operationId")
            url == routeOptions.url
            name == routes[i].name
        IN /\ Given(override) => name = override
           /\ (~Given(override) /\ Given(operationId)) => name = operationId
           /\ (~Given(override) /\ ~Given(operationId)) =>
                /\ name.k = "string"
                /\ Len(name.s) = Len(routeOptions.method) + (Len(routeOptions.method) - 1)
                                 + 1 + Len(url)
                /\ \A n \in 1..Len(routeOptions.method) :
                      name.s[2 * n - 1] = routeOptions.method[n]
                /\ \A n \in 1..(Len(routeOptions.method) - 1) : name.s[2 * n] = ","
                /\ name.s[2 * Len(routeOptions.method)] = "_"
                /\ \A n \in 1..Len(url) :
                      name.s[2 * Len(routeOptions.method) + n] =
                         IF url[n] \in {"/", ":", "{", "}"} THEN "_" ELSE url[n]
                /\ (routeOptions.method = <<"GET">> /\ url = HelloUrl) =>
                      name.s = <<"GET", "_", "_", "hello">>

\* a route registered with both an override name and an operationId
C2_Witness ==
    \E i \in 1..Len(routes) :
        /\ Given(Field(Field(events[origin[i]].config, "mcp"), "name"))
        /\ Given(Field(events[origin[i]].schema, "operationId"))
        /\ routes[i].name = Field(Field(events[origin[i]].config, "mcp"), "name")

-----------------------------------------------------------------------------
(* filterRoutes on lists of descriptors *)

MaxListed == 2

\* a descriptor with the given methods and tags
Descriptor(methods, tags) ==
    [methods |-> methods, url |-> HelloUrl,
     name |-> StrN(<<methods[1]>> \o <<"_", "_", "hello">>),
     summary |-> Undef, description |-> Undef, tags |-> tags,
     querystring |-> Undef, body |-> Undef, params |-> Undef, response |-> Undef]

Descriptors ==
    { Descriptor(methods, tags) :
        methods \in { <<"GET">>, <<"HEAD">>, <<"OPTIONS">>, <<"GET", "HEAD">>, <<"POST">> },
        tags \in { <<>>, <<S("users")>> } }

FilterOptions ==
    { Obj(a \o b \o c) :
        a \in { <<>>, <<E("skipHeadRoutes", False)>>, <<E("skipHeadRoutes", True)>> },
        b \in { <<>>, <<E("skipOptionsRoutes", False)>>, <<E("skipOptionsRoutes", True)>> },
        c \in { <<>>, <<E("filter", Fn("onlyGet"))>>, <<E("filter", Fn("untagged"))>> } }

InitFilter ==
    /\ input \in FilterOptions
    /\ options = MergeOptions(input)
    /\ routes \in UNION { [1..n -> Descriptors] : n \in 0..MaxListed }
    /\ origin = <<>>
    /\ events = <<>>
    /\ reply = [op |-> "none"]
    /\ NoSessions

\* one call of filterRoutes(routes)
FilterRoutes ==
    /\ reply.op = "none"
    /\ reply' = [op |-> "filter", out |-> filterRoutes(options, routes)]
    /\ UNCHANGED <<options, routes, origin, events, activeTransports, conn, inbox, input,
                 streamableTransport>>

NextFilter == FilterRoutes

SpecFilter == InitFilter /\ [][NextFilter]_vars

\* the positions of the accepted descriptors
AcceptedAt == { i \in 1..Len(routes) : Accepted(options, routes[i]) }

\* the j-th smallest accepted position
NthAccepted(j) ==
    CHOOSE i \in AcceptedAt : Cardinality({ k \in AcceptedAt : k < i }) = j - 1

\* C8: filterRoutes returns exactly the descriptors that are not dropped by
\* an enabled skipHeadRoutes (methods include HEAD), not dropped by an
\* enabled skipOptionsRoutes (methods include OPTIONS) and accepted by the
\* custom predicate if one is configured, unmodified and in their original
\* order; a HEAD-only route is removed when skipHeadRoutes is enabled and
\* kept when it is disabled; both flags are enabled when not given.
C8_FilterExact ==
    /\ ~HasKey(input, <<"skipHeadRoutes">>) => Enabled(options, "skipHeadRoutes")
    /\ ~HasKey(input, <<"skipOptionsRoutes">>) => Enabled(options, "skipOptionsRoutes")
    /\ reply.op = "filter" =>
          /\ Len(reply.out) = Cardinality(AcceptedAt)
          /\ \A j \in 1..Len(reply.out) : reply.out[j] = routes[NthAccepted(j)]
          /\ \A i \in 1..Len(routes) :
                routes[i].methods = <<"HEAD">> =>
                    /\ Enabled(options, "skipHeadRoutes") =>
                          \A j \in 1..Len(reply.out) : reply.out[j] # routes[i]
                    /\ (/\ ~Enabled(options, "skipHeadRoutes")
                        /\ \/ Field(options, "filter").k = "undefined"
                           \/ Truthy(CallFilter(Field(options, "filter"), routes[i]))) =>
                          \E j \in 1..Len(reply.out) : reply.out[j] = routes[i]

\* skipHeadRoutes is disabled, a HEAD-only route is kept and another
\* descriptor is dropped
C8_Witness ==
    /\ reply.op = "filter"
    /\ ~Enabled(options, "skipHeadRoutes")
    /\ \E j \in 1..Len(reply.out) : reply.out[j].methods = <<"HEAD">>
    /\ 0 < Len(reply.out) /\ Len(reply.out) < Len(routes)

-----------------------------------------------------------------------------
(* The request handler on a route and an argument map *)

MaxArgs == 2

\* { properties: { <key>: {type: "string"}, ... } } for a list of keys
Declaring(keys) ==
    Obj(<<E("type", S("object")),
          E("properties", Obj([i \in 1..Len(keys) |-> E(keys[i], Obj(<<E("type", S("string"))>>))]))>>)

\* the routes called: every pairing of a path-param schema and a query schema
CalledRoutes ==
    { [methods |-> <<"POST", "PUT">>, url |-> UserUrl, name |-> S("hello"),
       summary |-> Undef, description |-> Undef, tags |-> <<>>,
       querystring |-> q, body |-> Undef, params |-> p, response |-> Undef] :
        p \in { Undef, Obj(<<E("type", S("object"))>>), Declaring(<<"id">>),
                Declaring(<<"id", "q">>) },
        q \in { Undef, Declaring(<<"q">>), Declaring(<<"verbose", "q">>) } }

ArgEntries ==
    { E(key, val) : key \in {"id", "q", "verbose", "note"},
                    val \in { StrN(<<"a", "/", "b">>), Num("0") } }

\* argument maps: up to MaxArgs entries with distinct keys, in any order
ArgMaps ==
    { Obj(entries) :
        entries \in { s \in UNION { [1..n -> ArgEntries] : n \in 0..MaxArgs } :
                        \A i, j \in 1..Len(s) : i # j => s[i].key # s[j].key } }

InitCall ==
    /\ input \in { [route |-> route, args |-> args] :
                      route \in CalledRoutes, args \in ArgMaps \cup {Undef} }
    /\ options = MergeOptions(Obj(<<>>))
    /\ routes = <<>>
    /\ origin = <<>>
    /\ events = <<>>
    /\ reply = [op |-> "none"]
    /\ NoSessions

\* one call of prepareToolPayload(route, args)
PreparePayload ==
    /\ reply.op = "none"
    /\ IsObject(input.args)
    /\ reply' = [op |-> "payload", payload |-> prepareToolPayload(input.route, input.args)]
    /\ UNCHANGED <<options, routes, origin, events, activeTransports, conn, inbox, input,
                 streamableTransport>>

\* one call of handleToolCall(route, args)
HandleToolCall ==
    /\ reply.op = "none"
    /\ \E outcome \in InjectOutcomes :
          reply' = [op |-> "handled", done |-> handleToolCall(input.route, input.args, outcome)]
    /\ UNCHANGED <<options, routes, origin, events, activeTransports, conn, inbox, input,
                 streamableTransport>>

NextCall == PreparePayload \/ HandleToolCall

SpecCall == InitCall /\ [][NextCall]_vars

\* the keys of a list of entries
KeySet(entries) == { entries[i].key : i \in 1..Len(entries) }

\* the schema group declares the key among its properties
Declares(group, key) == HasKey(Field(group, "properties"), key)

\* C5: prepareToolPayload places each argument key in exactly one of the
\* buckets params, query, body: params if the path-param schema declares
\* the key, else query if the query schema declares it, else body; the
\* buckets are pairwise disjoint, their union is the argument key set and
\* each key keeps its value.
C5_ClassificationTotalExclusive ==
    reply.op = "payload" =>
        LET payload == reply.payload
            route == input.route
            args == input.args
        IN /\ KeySet(payload.params) \cap KeySet(payload.query) = {}
           /\ KeySet(payload.params) \cap KeySet(payload.body) = {}
           /\ KeySet(payload.query) \cap KeySet(payload.body) = {}
           /\ KeySet(payload.params) \cup KeySet(payload.query) \cup KeySet(payload.body)
                = KeySet(args.c)
           /\ Len(payload.params) + Len(payload.query) + Len(payload.body) = Len(args.c)
           /\ \A n \in 1..Len(args.c) :
                LET key == args.c[n].key
                    bucket == IF Declares(route.params, key) THEN payload.params
                              ELSE IF Declares(route.querystring, key) THEN payload.query
                              ELSE payload.body
                IN \E m \in 1..Len(bucket) : bucket[m] = args.c[n]

\* a key declared by both schemas went to params, another key to body
C5_Witness ==
    /\ reply.op = "payload"
    /\ \E m \in 1..Len(reply.payload.params) :
          /\ Declares(input.route.params, reply.payload.params[m].key)
          /\ Declares(input.route.querystring, reply.payload.params[m].key)
    /\ Len(reply.payload.body) > 0

-----------------------------------------------------------------------------
(* The tool converter on registered routes *)

ResponseSchema ==
    Obj(<<E("200", Obj(<<E("type", S("object")),
                         E("properties", Obj(<<E("id", Obj(<<E("type", S("integer"))>>))>>))>>))>>)

\* routes that differ in the pieces of a description
DescribedEvents ==
    { RouteOptions(<<"GET">>, FALSE, HelloUrl,
                   Obj(<<E("mcp", Obj(override))>>),
                   Obj(summary \o description \o tags \o response)) :
        override \in { <<>>, <<E("description", S("The is my hello tool"))>> },
        summary \in { <<>>, <<E("summary", StrN(<<>>))>>, <<E("summary", S("Hello World"))>> },
        description \in { <<>>, <<E("description", StrN(<<>>))>>,
                          <<E("description", S("Says hello"))>> },
        tags \in { <<>>, <<E("tags", Arr(<<S("a")>>))>>, <<E("tags", Arr(<<S("a"), S("b")>>))>> },
        response \in { <<>>, <<E("response", ResponseSchema)>> } }

InitConvert ==
    /\ input \in DescribedEvents
    /\ options \in { MergeOptions(Obj(given)) :
                        given \in { <<>>, <<E("describeFullSchema", True)>> } }
    /\ routes = <<>>
    /\ origin = <<>>
    /\ events = <<>>
    /\ reply = [op |-> "none"]
    /\ NoSessions

\* buildToolDescription of services/tool-converter.ts on the registered route
Describe ==
    /\ reply.op = "none"
    /\ reply' = [op |-> "describe", copy |-> "tool-converter.ts",
                 description |-> buildToolDescription(options, RouteOf(input))]
    /\ UNCHANGED <<options, routes, origin, events, activeTransports, conn, inbox, input,
                 streamableTransport>>

\* buildToolDescription of unnamed/part_000 on the registered route
DescribeAppending ==
    /\ reply.op = "none"
    /\ reply' = [op |-> "describe", copy |-> "part_000",
                 description |-> buildToolDescriptionAppending(options, RouteOf(input))]
    /\ UNCHANGED <<options, routes, origin, events, activeTransports, conn, inbox, input,
                 streamableTransport>>

\* convertRouteToTool on the registered route
Convert ==
    /\ reply.op = "none"
    /\ reply' = [op |-> "convert", tool |-> convertRouteToTool(options, RouteOf(input))]
    /\ UNCHANGED <<options, routes, origin, events, activeTransports, conn, inbox, input,
                 streamableTransport>>

NextConvert == Describe \/ DescribeAppending \/ Convert

SpecConvert == InitConvert /\ [][NextConvert]_vars

\* the text of an optional string, empty when it is absent
TextOf(v) == IF v.k = "string" THEN v.s ELSE <<>>

\* the description the claim states for a registered route: the non-empty
\* pieces among summary, description (override, else the schema's) and
\* "Tags: " + the tags joined by ", ", joined by a blank line; the name if
\* there is none
ExpectedDescription(routeOptions) ==
    LET schema == routeOptions.schema
        override == TextOf(Field(Field(routeOptions.config, "mcp"), "description"))
        summary == TextOf(Field(schema, "summary"))
        description == IF override # <<>> THEN override ELSE TextOf(Field(schema, "description"))
        tagList == Field(schema, "tags")
        tags == IF Len(tagList.c) = 0 THEN <<>>
                ELSE <<"Tags: ">> \o JoinText([i \in 1..Len(tagList.c) |-> tagList.c[i].val.s], <<", ">>)
        pieces == SelectSeq(<<summary, description, tags>>, LAMBDA x : x # <<>>)
    IN IF pieces = <<>> THEN RouteName(routeOptions).s
       ELSE JoinText(pieces, <<"\n\n">>)

\* C9 (as claimed): with describeFullSchema disabled a tool's description
\* is the non-empty pieces among summary, description and the tags line
\* joined by a blank line, with no text for an absent piece, and the tool
\* name when every piece is empty.
C9_DescriptionFromPieces ==
    (reply.op = "describe" /\ ~Truthy(Field(options, "describeFullSchema"))) =>
        /\ reply.description.k = "string"
        /\ reply.description.s = ExpectedDescription(input)

\* the same statement of the copy services/tool-converter.ts alone
DescriptionFromPiecesInToolConverter ==
    (reply.op = "describe" /\ reply.copy = "tool-converter.ts") => C9_DescriptionFromPieces

-----------------------------------------------------------------------------
(* The schema resolver on schemas and roots *)

\* a root whose definitions hold a plain fragment (A), a reference to it
\* (B), a reference to nothing (C), a fragment that refers to itself (Loop),
\* a falsy fragment (Zero) and a fragment with nested references (D)
DefinitionsRoot ==
    Obj(<<E("definitions",
            Obj(<<E("A", Obj(<<E("type", S("string"))>>)),
                  E("B", Ref("A")),
                  E("C", Ref("Missing")),
                  E("Loop", Obj(<<E("properties", Obj(<<E("next", Ref("Loop"))>>))>>)),
                  E("Zero", Num("0")),
                  E("D", Obj(<<E("items", Ref("B")),
                               E("anyOf", Arr(<<Ref("A"), Ref("C"), S("x")>>))>>))>>))>>)

\* the same definitions without the fragment that refers to itself
AcyclicRoot ==
    Obj(<<E("definitions",
            Obj(<<E("A", Obj(<<E("type", S("string"))>>)),
                  E("B", Ref("A")),
                  E("Loop", Obj(<<E("properties", Obj(<<E("next", Ref("B"))>>))>>))>>))>>)

SchemaLeaves ==
    { Ref(name) : name \in {"A", "B", "C", "Loop", "Zero", "D", "Missing"} }
    \cup { Obj(<<E("$ref", StrN(<<"definitions", "/", "A">>))>>),
           Obj(<<E("$ref", StrN(<<"#/">>))>>),
           Obj(<<E("$ref", StrN(<<>>)), E("type", S("string"))>>),
           Undef, Null, False, Num("0"), S("x") }

Schemas ==
    SchemaLeaves
    \cup { Obj(<<E("type", S("object")), E("properties", Obj(<<E("a", x), E("b", y)>>))>>) :
             x \in SchemaLeaves, y \in SchemaLeaves }
    \cup { Arr(<<x, y>>) : x \in SchemaLeaves, y \in SchemaLeaves }

InitSchema ==
    /\ input \in { [schema |-> schema, rootSchema |-> rootSchema] :
                      schema \in Schemas, rootSchema \in {DefinitionsRoot, AcyclicRoot} }
    /\ options = MergeOptions(Obj(<<>>))
    /\ routes = <<>>
    /\ origin = <<>>
    /\ events = <<>>
    /\ reply = [op |-> "none"]
    /\ NoSessions

\* resolveSchemaReferences(schema, rootSchema)
Resolve ==
    /\ reply.op = "none"
    /\ reply' = [op |-> "resolve", pass |-> 1, of |-> input.schema,
                 value |-> resolveSchemaReferences(input.schema, input.rootSchema)]
    /\ UNCHANGED <<options, routes, origin, events, activeTransports, conn, inbox, input,
                 streamableTransport>>

\* resolveSchemaReferences applied to the value a first call returned
ResolveAgain ==
    /\ reply.op = "resolve"
    /\ reply.pass = 1
    /\ ~IsThrown(reply.value)
    /\ reply' = [op |-> "resolve", pass |-> 2, of |-> reply.value,
                 value |-> resolveSchemaReferences(reply.value, input.rootSchema)]
    /\ UNCHANGED <<options, routes, origin, events, activeTransports, conn, inbox, input,
                 streamableTransport>>

NextSchema == Resolve \/ ResolveAgain

SpecSchema == InitSchema /\ [][NextSchema]_vars

\* C7 (as claimed): for every schema and root, resolveSchemaReferences
\* returns a value, and resolving that value again against the same root
\* returns a value deeply equal to it.
C7_ResolveIdempotent ==
    reply.op = "resolve" =>
        /\ ~IsThrown(reply.value)
        /\ reply.pass = 2 => reply.value = reply.of

\* the same statement of the calls that return: a second resolution of a
\* returned value changes nothing
ResolveIdempotentWhenItReturns ==
    (reply.op = "resolve" /\ reply.pass = 2) =>
        (~IsThrown(reply.value) /\ reply.value = reply.of)

-----------------------------------------------------------------------------
(* index.ts: the transports *)

\* the session endpoints registered whatever the transport type
SessionEndpointsInEveryMode == TRUE

SseMode == Field(options, "transportType") = S("sse")
StreamableMode == Field(options, "transportType") = S("streamableHttp")

\* the transport new SSEServerTransport(...) makes for a connection; its
\* sessionId is a fresh UUID
Transport(id) == [sessionId |-> id, endpoint |-> <<"/mcp", "/messages">>]

\* Map.prototype.set and Map.prototype.delete
MapSet(map, key, val) ==
    [k \in (DOMAIN map) \cup {key} |-> IF k = key THEN val ELSE map[k]]
MapDelete(map, key) == [k \in (DOMAIN map) \ {key} |-> map[k]]

SessionNotFound == Obj(<<E("error", S("Session not found"))>>)
InternalServerError == Obj(<<E("error", S("Internal server error"))>>)

\* a connect handler that stores every transport under one key
SseConnectUnderOneKey(id) ==
    /\ SseMode
    /\ conn[id] = "unused"
    /\ activeTransports' = MapSet(activeTransports, 1, Transport(id))
    /\ conn' = [conn EXCEPT ![id] = "connecting"]
    /\ reply' = [op |-> "sse", sessionId |-> id]
    /\ UNCHANGED <<options, routes, origin, events, inbox, input, streamableTransport>>

\* a connect handler that has not stored the transport when it suspends
SseConnectWithoutInsert(id) ==
    /\ SseMode
    /\ conn[id] = "unused"
    /\ conn' = [conn EXCEPT ![id] = "connecting"]
    /\ reply' = [op |-> "sse", sessionId |-> id]
    /\ UNCHANGED <<options, routes, origin, events, activeTransports, inbox, input,
                 streamableTransport>>

\* GET {mount}/sse up to its await: the transport is made and stored, the
\* close listener is registered and mcpServer.connect(transport) is started
SseConnect(id) ==
    /\ SseMode
    /\ conn[id] = "unused"
    /\ activeTransports' = MapSet(activeTransports, id, Transport(id))
    /\ conn' = [conn EXCEPT ![id] = "connecting"]
    /\ reply' = [op |-> "sse", sessionId |-> id]
    /\ UNCHANGED <<options, routes, origin, events, inbox, input, streamableTransport>>

\* the awaited mcpServer.connect(transport) completes: the endpoint event
\* has announced the session identifier to the client
SseConnected(id) ==
    /\ conn[id] = "connecting"
    /\ conn' = [conn EXCEPT ![id] = "open"]
    /\ reply' = [op |-> "connected", sessionId |-> id]
    /\ UNCHANGED <<options, routes, origin, events, activeTransports, inbox, input,
                 streamableTransport>>

\* a close listener that only logs
CloseWithoutDelete(id) ==
    /\ conn[id] \in {"connecting", "open"}
    /\ conn' = [conn EXCEPT ![id] = "closed"]
    /\ reply' = [op |-> "close", sessionId |-> id]
    /\ UNCHANGED <<options, routes, origin, events, activeTransports, inbox, input,
                 streamableTransport>>

\* res.raw.on("close", ...): the connection closes and the listener runs
CloseConnection(id) ==
    /\ conn[id] \in {"connecting", "open"}
    /\ conn' = [conn EXCEPT ![id] = "closed"]
    /\ activeTransports' = MapDelete(activeTransports, id)
    /\ reply' = [op |-> "close", sessionId |-> id]
    /\ UNCHANGED <<options, routes, origin, events, inbox, input, streamableTransport>>

\* a messages handler that hands a message for an unknown session to some
\* stored transport
PostMessageWithFallback(sessionId, outcome) ==
    /\ SseMode
    /\ IF sessionId \notin DOMAIN activeTransports
       THEN /\ \E other \in DOMAIN activeTransports :
                  /\ inbox[other] < MaxInbox
                  /\ inbox' = [inbox EXCEPT ![other] = @ + 1]
            /\ reply' = [op |-> "post", sessionId |-> sessionId, status |-> 202, body |-> Undef]
       ELSE /\ inbox[sessionId] < MaxInbox
            /\ inbox' = [inbox EXCEPT ![sessionId] = @ + 1]
            /\ reply' = [op |-> "post", sessionId |-> sessionId, status |-> 202, body |-> Undef]
    /\ UNCHANGED <<options, routes, origin, events, activeTransports, conn, input,
                 streamableTransport>>

\* POST {mount}/messages?sessionId=<sessionId> run to its end; `outcome` is
\* what transport.handlePostMessage does: it accepts the message for the
\* channel or throws
PostMessage(sessionId, outcome) ==
    /\ SseMode
    /\ IF sessionId \notin DOMAIN activeTransports
       THEN /\ reply' = [op |-> "post", sessionId |-> sessionId,
                         status |-> 404, body |-> SessionNotFound]
            /\ UNCHANGED inbox
       ELSE IF outcome = "throws"
       THEN /\ reply' = [op |-> "post", sessionId |-> sessionId,
                         status |-> 500, body |-> InternalServerError]
            /\ UNCHANGED inbox
       ELSE /\ inbox[sessionId] < MaxInbox
            /\ inbox' = [inbox EXCEPT ![sessionId] = @ + 1]
            /\ reply' = [op |-> "post", sessionId |-> sessionId,
                         status |-> 202, body |-> Undef]
    /\ UNCHANGED <<options, routes, origin, events, activeTransports, conn, input,
                 streamableTransport>>

\* POST {mount} in streamableHttp mode: the one transport connected at
\* plugin start handles the request, or the handler answers 500 when
\* handleRequest throws
StreamableRequest(outcome) ==
    /\ StreamableMode
    /\ streamableTransport.handled < MaxInbox
    /\ streamableTransport' = [streamableTransport EXCEPT !.handled = @ + 1]
    /\ reply' = IF outcome = "throws"
                THEN [op |-> "streamable", status |-> 500,
                      body |-> Obj(<<E("jsonrpc", S("2.0")),
                                     E("error", Obj(<<E("code", Num("-32603")),
                                                      E("message", S("Internal server error"))>>)),
                                     E("id", Null)>>)]
                ELSE [op |-> "streamable", status |-> 200, body |-> Undef]
    /\ UNCHANGED <<options, routes, origin, events, activeTransports, conn, inbox, input>>

\* a request to an endpoint the plugin has not registered in its mode: the
\* session endpoints in streamableHttp mode, POST {mount} in sse mode. No
\* handler of the plugin runs; the framework answers 404
Unrouted(endpoint) ==
    /\ endpoint \in (IF StreamableMode THEN {"GET /sse", "POST /messages"}
                     ELSE IF SseMode THEN {"POST /"}
                     ELSE {"GET /sse", "POST /messages", "POST /"})
    /\ reply' = [op |-> "unrouted", endpoint |-> endpoint, status |-> 404]
    /\ UNCHANGED <<options, routes, origin, events, activeTransports, conn, inbox, input,
                   streamableTransport>>

-----------------------------------------------------------------------------
(* The sessions of the SSE transport *)

\* 0 stands for an identifier no transport was ever given
PostedIds == SessionIds \cup {0}

InitSession ==
    /\ options \in { MergeOptions(Obj(given)) :
                        given \in { <<>>, <<E("transportType", S("streamableHttp"))>> } }
    /\ routes = <<>>
    /\ origin = <<>>
    /\ events = <<>>
    /\ reply = [op |-> "none"]
    /\ input = Undef
    /\ NoSessions

Connect == \E id \in SessionIds : SseConnect(id)
Connected == \E id \in SessionIds : SseConnected(id)
Close == \E id \in SessionIds : CloseConnection(id)
Post == \E sessionId \in PostedIds, outcome \in {"accepts", "throws"} : PostMessage(sessionId, outcome)
Streamable == \E outcome \in {"accepts", "throws"} : StreamableRequest(outcome)

NextSession ==
    \/ Connect \/ Connected \/ Close \/ Post \/ Streamable
    \/ \E endpoint \in {"GET /sse", "POST /messages", "POST /"} : Unrouted(endpoint)

SpecSession == InitSession /\ [][NextSession]_vars

\* C3: once the connection of a session has closed, its identifier is not
\* in the session map again, and every message posted to it afterwards is
\* answered 404 {error: "Session not found"} and reaches no channel.
C3_ClosedSessionNotFound ==
    /\ [](\A id \in SessionIds : conn[id] = "closed" => id \notin DOMAIN activeTransports)
    /\ [][\A id \in SessionIds :
            (conn[id] = "closed" /\ reply'.op = "post" /\ reply'.sessionId = id) =>
                /\ conn'[id] = "closed"
                /\ reply'.status = 404
                /\ reply'.body = SessionNotFound
                /\ inbox' = inbox]_vars

\* a message to a closed session was answered 404 while another session,
\* opened after the close, has received a message
C3_Witness ==
    /\ reply.op = "post"
    /\ reply.status = 404
    /\ reply.sessionId \in SessionIds
    /\ conn[reply.sessionId] = "closed"
    /\ \E other \in SessionIds : conn[other] = "open" /\ inbox[other] > 0

\* C10: a message posted with a session identifier that is not in the
\* session map is answered 404 {error: "Session not found"}; no channel
\* receives it, and the session map and every connection are unchanged.
C10_UnknownSessionNotFound ==
    [][(reply'.op = "post" /\ reply'.sessionId \notin DOMAIN activeTransports) =>
          /\ reply'.status = 404
          /\ reply'.body = SessionNotFound
          /\ inbox' = inbox
          /\ activeTransports' = activeTransports
          /\ conn' = conn]_vars

\* a message for an identifier that never was a session was answered 404
\* while a session is open and has received a message
C10_Witness ==
    /\ reply.op = "post"
    /\ reply.status = 404
    /\ reply.sessionId = 0
    /\ \E other \in DOMAIN activeTransports : inbox[other] > 0

-----------------------------------------------------------------------------
(* Claims on the catalogue and the dispatch *)

\* a registration names at least one recognized HTTP method
HasValidMethod(routeOptions) ==
    \E n \in 1..Len(routeOptions.method) :
        routeOptions.method[n] \in {"DELETE", "GET", "HEAD", "PATCH", "POST", "PUT", "OPTIONS"}

\* the registrations among evs, in registration order, that the registry
\* took (not hidden, a valid method, the hook returned) and that pass the
\* filter of opts
VisibleTo(opts, evs) ==
    SelectSeq([n \in 1..Len(evs) |-> n],
              LAMBDA n : /\ ~MarkedHidden(evs[n])
                         /\ HasValidMethod(evs[n])
                         /\ ~IsThrown(RouteThrown(RouteOf(evs[n])))
                         /\ Accepted(opts, RouteOf(evs[n])))

\* C11: every list-tools result is the conversion of exactly the routes
\* the registry accepted before that call and that pass the filter, in
\* registration order; the call adds no registration, so a route registered
\* later is in the results of later calls only.
C11_ListSeesRegistryBeforeCall ==
    [][reply'.op = "list" =>
          /\ events' = events
          /\ routes' = routes
          /\ reply'.from = VisibleTo(options, events)
          /\ reply'.tools = [j \in 1..Len(reply'.from) |->
                               convertRouteToTool(options, RouteOf(events[reply'.from[j]]))]]_vars

\* two registered routes are listed, in registration order, as two
\* different tools
C11_Witness ==
    /\ reply.op = "list"
    /\ Len(events) = 2
    /\ reply.from = <<1, 2>>
    /\ reply.tools[1].name # reply.tools[2].name

-----------------------------------------------------------------------------
(* The response formatter on response bodies *)

MaxItems == 2

RECURSIVE Serialized(_, _)
\* the body a route sends for a JSON value: its JSON text without
\* indentation, `gap` written after every "," and ":"
Serialized(v, gap) ==
    CASE v.k = "null" -> <<"null">>
      [] v.k \in {"boolean", "number"} -> v.s
      [] v.k = "string" -> <<"\"">> \o v.s \o <<"\"">>
      [] v.k = "array" ->
            <<"[">> \o JoinText([i \in 1..Len(v.c) |-> Serialized(v.c[i].val, gap)],
                                <<",">> \o gap) \o <<"]">>
      [] v.k = "object" ->
            <<"{">> \o JoinText([i \in 1..Len(v.c) |->
                                   <<"\"">> \o v.c[i].key \o <<"\"", ":">> \o gap
                                   \o Serialized(v.c[i].val, gap)],
                                <<",">> \o gap) \o <<"}">>

\* bodies that are JSON, each with the value it denotes (JSON values:
\* leaves, arrays of MaxItems leaves, objects of up to MaxItems members, an
\* object holding an array), and bodies that are not JSON
InitResponse ==
    /\ LET JsonLeaves ==
               { Num("0"), Num("42"), S("hi"), StrN(<<>>), True, False, Null, Obj(<<>>), Arr(<<>>) }
           JsonValues ==
               JsonLeaves
               \cup { Arr(items) : items \in [1..MaxItems -> JsonLeaves] }
               \cup { Obj(<<E("a", x)>>) : x \in JsonLeaves }
               \cup { Obj([i \in 1..MaxItems |-> E(<<"a", "b", "c", "d">>[i], x)]) :
                         x \in {Num("0"), S("hi")} }
               \cup { Obj(<<E("a", Obj(<<E("b", Arr(<<x, Null>>))>>))>>) : x \in JsonLeaves }
           JsonBodies ==
               { [body |-> Serialized(v, gap), json |-> TRUE, value |-> v] :
                    v \in JsonValues, gap \in { <<>>, <<" ">>, <<"\n", "  ">> } }
               \cup { [body |-> <<"1.0">>, json |-> TRUE, value |-> Num("1")],
                      [body |-> <<" ", "42", "\n">>, json |-> TRUE, value |-> Num("42")],
                      [body |-> <<"{", "\"", "a", "\"", ":", "0", ",", "\"", "b", "\"", ":",
                                  "true", ",", "\"", "a", "\"", ":", "42", "}">>,
                       json |-> TRUE, value |-> Obj(<<E("a", Num("42")), E("b", True)>>)] }
           TextBodies ==
               { [body |-> b, json |-> FALSE, value |-> Undef] :
                    b \in { <<"Hello World">>, <<>>, <<"{">>, <<"{", "\"", "a", "\"", "}">>,
                            <<"[", "1", ",", "]">>, <<"{", "\"", "a", "\"", ":", "1", ",", "}">>,
                            <<"1", "1">>, <<"\"", "hi">>, <<"undefined">>, <<"{", "}", "x">>,
                            <<"[", "1", "1", "]">>, <<"{", "a", ":", "1", "}">> } }
       IN input \in JsonBodies \cup TextBodies
    /\ options = MergeOptions(Obj(<<>>))
    /\ routes = <<>>
    /\ origin = <<>>
    /\ events = <<>>
    /\ reply = [op |-> "none"]
    /\ NoSessions

\* one call of formatToolResponse(responseBody)
FormatResponse ==
    /\ reply.op = "none"
    /\ reply' = [op |-> "format", result |-> formatToolResponse(input.body)]
    /\ UNCHANGED <<options, routes, origin, events, activeTransports, conn, inbox, input,
                 streamableTransport>>

\* one call of handleToolCall whose inject resolves with the body, under
\* any status
RespondToCall ==
    /\ reply.op = "none"
    /\ \E status \in {200, 500} :
          reply' = [op |-> "responded", status |-> status,
                    result |-> handleToolCall(
                                  [methods |-> <<"GET">>, url |-> HelloUrl, name |-> S("hello"),
                                   summary |-> Undef, description |-> Undef, tags |-> <<>>,
                                   querystring |-> Undef, body |-> Undef, params |-> Undef,
                                   response |-> Undef],
                                  Obj(<<>>),
                                  [rejects |-> FALSE, status |-> status, body |-> input.body]).result]
    /\ UNCHANGED <<options, routes, origin, events, activeTransports, conn, inbox, input,
                 streamableTransport>>

\* one call-tool request dispatched to a route: request.params.arguments
\* is an object or is absent, fastify.inject rejects or resolves with the
\* body under some status
DispatchCall ==
    /\ reply.op = "none"
    /\ \E status \in {200, 201, 404, 500}, rejects \in BOOLEAN, args \in {Obj(<<>>), Undef} :
          reply' = [op |-> "dispatched", status |-> status, rejects |-> rejects, args |-> args,
                    done |-> handleToolCall(
                                [methods |-> <<"GET">>, url |-> HelloUrl, name |-> S("hello"),
                                 summary |-> Undef, description |-> Undef, tags |-> <<>>,
                                 querystring |-> Undef, body |-> Undef, params |-> Undef,
                                 response |-> Undef],
                                args,
                                [rejects |-> rejects, status |-> status, body |-> input.body])]
    /\ UNCHANGED <<options, routes, origin, events, activeTransports, conn, inbox, input,
                   streamableTransport>>

NextResponse == FormatResponse \/ RespondToCall \/ DispatchCall

SpecResponse == InitResponse /\ [][NextResponse]_vars

\* C12: a successful tool call returns exactly one content block, of type
\* text; when the raw response body is JSON the text is the JSON of the
\* parsed value pretty-printed with two spaces, otherwise the text is the
\* raw body unchanged ("Hello World" gives "Hello World").
C12_OneTextBlock ==
    reply.op \in {"format", "responded"} =>
        /\ Len(reply.result.content) = 1
        /\ reply.result.content[1].type = "text"
        /\ input.json => reply.result.content[1].text = Pretty(input.value, 0)
        /\ ~input.json => reply.result.content[1].text = input.body
        /\ input.body = <<"{", "\"", "a", "\"", ":", "42", "}">> =>
              reply.result.content[1].text =
                 <<"{", "\n", "  ", "\"", "a", "\"", ":", " ", "42", "\n", "}">>
        /\ input.body = <<"Hello World">> => reply.result.content[1].text = <<"Hello World">>

\* a body that is JSON was answered with a text that differs from it
C12_Witness ==
    /\ reply.op = "responded"
    /\ input.json
    /\ input.value.k = "object"
    /\ reply.result.content[1].text # input.body
    /\ reply.result.content[1].text = Pretty(input.value, 0)

-----------------------------------------------------------------------------
(* Claims on the session map *)

\* the identifiers of the streaming connections opened and not yet closed
LiveConnections == { id \in SessionIds : conn[id] \in {"connecting", "open"} }

\* C13: in every state of the session-based mode the session map holds one
\* channel per key, the channel of that session, and its keys are exactly
\* the identifiers of the streaming connections that were opened and have
\* not closed; a close removes the entry of its connection, so no entry of
\* a closed connection stays.
C13_MapIsLiveConnections ==
    /\ [](SseMode =>
            /\ DOMAIN activeTransports = LiveConnections
            /\ \A id \in DOMAIN activeTransports : activeTransports[id].sessionId = id)
    /\ [][\A id \in SessionIds :
            (conn[id] # "closed" /\ conn'[id] = "closed") =>
                /\ id \in DOMAIN activeTransports
                /\ DOMAIN activeTransports' = (DOMAIN activeTransports) \ {id}]_vars

\* one connection has closed while another is live: the map holds the live
\* one only
C13_Witness ==
    /\ SseMode
    /\ \E id \in SessionIds : conn[id] = "closed"
    /\ LiveConnections # {}
    /\ DOMAIN activeTransports = LiveConnections
    /\ reply.op = "close"

\* C20: the connect handler stores the transport before its first
\* suspension and the close listener deletes in one step, so in every
\* interleaving of connects, messages and closes a message for a session
\* that has been announced and has not closed finds its channel: it is
\* never answered 404.
C20_AnnouncedSessionIsFound ==
    /\ [](\A id \in SessionIds : conn[id] \in {"connecting", "open"} =>
                                    id \in DOMAIN activeTransports)
    /\ [][\A id \in SessionIds :
            (conn[id] = "open" /\ reply'.op = "post" /\ reply'.sessionId = id) =>
                /\ reply'.status # 404
                /\ reply'.status = 202 => inbox'[id] = inbox[id] + 1]_vars

\* a message was delivered to an open session while the connect handler of
\* another session is suspended and a third party's session has closed
C20_Witness ==
    /\ reply.op = "post"
    /\ reply.status = 202
    /\ conn[reply.sessionId] = "open"
    /\ \E other \in SessionIds : conn[other] \in {"connecting", "closed"}

-----------------------------------------------------------------------------
(* Claims on the descriptors of the registry *)

\* C14: in every state each descriptor of the registry has a non-empty
\* method list whose members are all among DELETE, GET, HEAD, PATCH, POST,
\* PUT, OPTIONS, in the order they were given; a registration none of
\* whose methods is recognized leaves the registry unchanged.
C14_DescriptorsHaveValidMethods ==
    /\ [](\A i \in 1..Len(routes) :
            /\ Len(routes[i].methods) > 0
            /\ \A n \in 1..Len(routes[i].methods) :
                  routes[i].methods[n] \in {"DELETE", "GET", "HEAD", "PATCH", "POST", "PUT", "OPTIONS"}
            /\ routes[i].methods =
                  SelectSeq(events[origin[i]].method,
                            LAMBDA m : m \in {"DELETE", "GET", "HEAD", "PATCH", "POST", "PUT", "OPTIONS"}))
    /\ [][(Len(events') = Len(events) + 1 /\ ~HasValidMethod(events'[Len(events')]))
            => routes' = routes]_vars

\* a registration that named an unrecognized method beside GET is in the
\* registry with GET alone
C14_Witness ==
    \E i \in 1..Len(routes) :
        /\ events[origin[i]].method = <<"PROPFIND", "GET">>
        /\ routes[i].methods = <<"GET">>

-----------------------------------------------------------------------------
(* Claims on the references of a resolved schema *)

RECURSIVE Mentions(_, _)
\* the value holds a reference to definitions/<name>
Mentions(v, name) ==
    \/ v = Ref(name)
    \/ \E i \in 1..Len(v.c) : Mentions(v.c[i].val, name)

\* the references reachable from the schema do not come back to themselves
AcyclicInput == input.rootSchema = AcyclicRoot \/ ~Mentions(input.schema, "Loop")

\* a node that carries a reference path
IsReference(v) == v.k = "object" /\ Field(v, "$ref").k = "string" /\ Field(v, "$ref").s # <<>>

RECURSIVE PathExists(_, _)
\* every segment of the path names a property of the value before it
PathExists(v, path) ==
    path = <<>> \/ (HasKey(v, Head(path)) /\ PathExists(Get(v, Head(path)), Tail(path)))

RECURSIVE Designated(_, _)
\* the fragment an existing path designates
Designated(v, path) ==
    IF path = <<>> THEN v ELSE Designated(Get(v, Head(path)), Tail(path))

RECURSIVE Substituted(_, _)
\* the schema with every reference whose whole path exists in the root
\* replaced by the substituted fragment it designates, and every other
\* reference node left as it is
Substituted(v, root) ==
    IF IsReference(v)
    THEN IF PathExists(root, RefPath(Field(v, "$ref")))
         THEN Substituted(Designated(root, RefPath(Field(v, "$ref"))), root)
         ELSE v
    ELSE IF IsObject(v)
    THEN [v EXCEPT !.c = [i \in 1..Len(v.c) |->
                            [key |-> v.c[i].key, val |-> Substituted(v.c[i].val, root)]]]
    ELSE v

\* C15 (as claimed): for an acyclic schema resolveSchemaReferences raises
\* no error; a reference node stays in its output, unchanged, only where a
\* segment of its path is missing from the root, and every reference whose
\* whole path exists in the root is replaced by the recursively resolved
\* fragment it designates.
C15_ReferencesResolvedWherePathExists ==
    (reply.op = "resolve" /\ reply.pass = 1 /\ AcyclicInput) =>
        /\ ~IsThrown(reply.value)
        /\ reply.value = Substituted(input.schema, input.rootSchema)

\* the same statement of the schemas whose references designate no falsy
\* fragment
ReferencesResolvedWhereFragmentIsTruthy ==
    (reply.op = "resolve" /\ reply.pass = 1 /\ AcyclicInput /\ ~Mentions(input.schema, "Zero")) =>
        /\ ~IsThrown(reply.value)
        /\ reply.value = Substituted(input.schema, input.rootSchema)

-----------------------------------------------------------------------------
(* The URL of a tool call, on URL templates and path parameters *)

MaxSegments == 3
MaxParams == 2

RECURSIVE TemplateText(_)
\* the text of a template: "/" and the literal, or "/:" and the key, per segment
TemplateText(segments) ==
    IF segments = <<>> THEN <<>>
    ELSE <<"/">> \o (IF Head(segments).placeholder THEN <<":">> ELSE <<>>)
         \o Head(segments).text \o TemplateText(Tail(segments))

\* a route with the template as its URL whose path-param schema declares
\* every key
TemplateRoute(segments) ==
    [methods |-> <<"GET">>, url |-> TemplateText(segments), name |-> S("hello"),
     summary |-> Undef, description |-> Undef, tags |-> <<>>,
     querystring |-> Undef, body |-> Undef, response |-> Undef,
     params |-> Obj(<<E("type", S("object")),
                      E("properties",
                        Obj([i \in 1..3 |->
                               [key |-> <<<<"id">>, <<"id", "2">>, <<"name">>>>[i],
                                val |-> Obj(<<E("type", S("string"))>>)]]))>>)]

\* templates of up to MaxSegments segments, each the literal "users" or the
\* placeholder of "id", "id2" (which "id" begins) or "name"; path parameters
\* of up to MaxParams entries with distinct keys, in any order
InitUrl ==
    /\ LET ParamKeys == { <<"id">>, <<"id", "2">>, <<"name">> }
           Segments == { [placeholder |-> FALSE, text |-> <<"users">>] }
                       \cup { [placeholder |-> TRUE, text |-> key] : key \in ParamKeys }
           Templates == UNION { [1..n -> Segments] : n \in 1..MaxSegments }
           ParamEntries == { [key |-> key, val |-> val] :
                               key \in ParamKeys,
                               val \in { Num("42"), StrN(<<"a", "/", "b", ":", "id">>) } }
           ParamMaps == { entries \in UNION { [1..n -> ParamEntries] : n \in 0..MaxParams } :
                            \A i, j \in 1..Len(entries) : i # j => entries[i].key # entries[j].key }
       IN input \in { [segments |-> segments, params |-> params] :
                         segments \in Templates, params \in ParamMaps }
    /\ options = MergeOptions(Obj(<<>>))
    /\ routes = <<>>
    /\ origin = <<>>
    /\ events = <<>>
    /\ reply = [op |-> "none"]
    /\ NoSessions

\* handleToolCall on the route of the template with the parameters as
\* arguments: the request it hands to fastify.inject
SubstituteUrl ==
    /\ reply.op = "none"
    /\ \E outcome \in InjectOutcomes :
          reply' = [op |-> "url", rejects |-> outcome.rejects,
                    request |-> handleToolCall(TemplateRoute(input.segments),
                                               Obj(input.params), outcome).injected[1]]
    /\ UNCHANGED <<options, routes, origin, events, activeTransports, conn, inbox, input,
                 streamableTransport>>

NextUrl == SubstituteUrl

SpecUrl == InitUrl /\ [][NextUrl]_vars

\* a key is supplied by the parameters
Supplied(params, key) == \E i \in 1..Len(params) : params[i].key = key

\* the value supplied for a key
SuppliedValue(params, key) == params[CHOOSE i \in 1..Len(params) : params[i].key = key].val

RECURSIVE SubstitutedTemplate(_, _)
\* the template with the placeholder of every supplied key replaced by the
\* URL-encoded string form of its value, and everything else as it was
SubstitutedTemplate(segments, params) ==
    IF segments = <<>> THEN <<>>
    ELSE <<"/">>
         \o (IF Head(segments).placeholder
             THEN IF Supplied(params, Head(segments).text)
                  THEN encodeURIComponent(ToText(SuppliedValue(params, Head(segments).text)))
                  ELSE <<":">> \o Head(segments).text
             ELSE Head(segments).text)
         \o SubstitutedTemplate(Tail(segments), params)

\* C16 (as claimed): for every URL template and params bucket the URL
\* handed to fastify.inject is the template with the placeholder ":key" of
\* each params entry replaced by the URL-encoded string form of its value:
\* no placeholder of a supplied key remains and nothing else, a
\* placeholder of another key included, is altered.
C16_UrlSubstitution ==
    reply.op = "url" =>
        reply.request.url = SubstitutedTemplate(input.segments, input.params)

\* no supplied key names two placeholders of the template, and no
\* placeholder before the one of a supplied key has a name that key begins
PlaceholdersApart ==
    \A i \in 1..Len(input.params) :
        LET key == input.params[i].key
            at == { n \in 1..Len(input.segments) :
                      input.segments[n].placeholder /\ input.segments[n].text = key }
        IN /\ Cardinality(at) <= 1
           /\ \A n \in 1..Len(input.segments) :
                 (/\ input.segments[n].placeholder
                  /\ input.segments[n].text # key
                  /\ Len(input.segments[n].text) > Len(key)
                  /\ SubSeq(input.segments[n].text, 1, Len(key)) = key)
                 => (at # {} /\ \A m \in at : m < n)

\* the same statement of the templates whose placeholders are apart
UrlSubstitutionWhenPlaceholdersApart ==
    (reply.op = "url" /\ PlaceholdersApart) =>
        reply.request.url = SubstitutedTemplate(input.segments, input.params)

-----------------------------------------------------------------------------
(* Claims on the request a tool call makes *)

\* the request stated for a call of `route` with the argument entries
\* `entries`: the first method, the URL with the path parameter
\* substituted, the query bucket, and the body bucket or nothing
StatedRequest(route, entries) ==
    LET params == SelectSeq(entries, LAMBDA e : Declares(route.params, e.key))
        query == SelectSeq(entries, LAMBDA e : /\ ~Declares(route.params, e.key)
                                               /\ Declares(route.querystring, e.key))
        body == SelectSeq(entries, LAMBDA e : /\ ~Declares(route.params, e.key)
                                              /\ ~Declares(route.querystring, e.key))
    IN [method |-> Head(route.methods),
        url |-> IF Supplied(params, <<"id">>)
                THEN <<"/", "users", "/">>
                     \o encodeURIComponent(ToText(SuppliedValue(params, <<"id">>)))
                ELSE route.url,
        query |-> Obj(query),
        payload |-> IF body = <<>> THEN Undef ELSE Obj(body)]

\* C17 (as claimed): each call-tool request that resolves to a route
\* invokes fastify.inject exactly once, whatever the outcome, with the
\* first method of the route, the substituted URL, the query bucket, and
\* as payload the body bucket when it has a key and nothing when it is
\* empty.
C17_InjectedExactlyOnce ==
    reply.op = "handled" =>
        /\ Len(reply.done.injected) = 1
        /\ reply.done.injected[1] = StatedRequest(input.route, input.args.c)

\* the same statement of the requests that carry an arguments object
InjectedExactlyOnceGivenArguments ==
    (reply.op = "handled" /\ IsObject(input.args)) =>
        /\ Len(reply.done.injected) = 1
        /\ reply.done.injected[1] = StatedRequest(input.route, input.args.c)

-----------------------------------------------------------------------------
(* The input schema of a tool, on routes with all four parameter groups *)

\* the schema of a parameter group in one of its shapes; the properties of
\* each group have a type of their own
GroupShapes(type) ==
    { Undef,
      Obj(<<E("type", S("object")), E("required", Arr(<<S("a")>>))>>),
      Obj(<<E("properties", Obj(<<E("a", Obj(<<E("type", S(type))>>))>>))>>),
      Obj(<<E("properties", Obj(<<E("a", Obj(<<E("type", S(type)), E("description", S("own"))>>))>>)),
            E("required", Arr(<<S("a")>>))>>),
      Obj(<<E("properties", Obj(<<E("b", Obj(<<E("type", S(type))>>)),
                                  E("a", Obj(<<E("type", S(type))>>))>>)),
            E("required", Arr(<<S("b"), S("c")>>))>>) }

InitInput ==
    /\ input \in { [methods |-> <<"GET">>, url |-> HelloUrl, name |-> name,
                    summary |-> Undef, description |-> Undef, tags |-> <<>>,
                    headers |-> h, params |-> p, querystring |-> q, body |-> b,
                    response |-> Undef] :
                      name \in {S("hello")},
                      h \in GroupShapes("string"), p \in GroupShapes("integer"),
                      q \in GroupShapes("boolean"), b \in GroupShapes("number") }
    /\ options = MergeOptions(Obj(<<>>))
    /\ routes = <<>>
    /\ origin = <<>>
    /\ events = <<>>
    /\ reply = [op |-> "none"]
    /\ NoSessions

\* one call of buildToolInputSchema(route)
BuildInputSchema ==
    /\ reply.op = "none"
    /\ reply' = [op |-> "inputSchema", inputSchema |-> buildToolInputSchema(input)]
    /\ UNCHANGED <<options, routes, origin, events, activeTransports, conn, inbox, input,
                 streamableTransport>>

NextInput == BuildInputSchema

SpecInput == InitInput /\ [][NextInput]_vars

\* the groups of the route in their order, each with its label
GroupsInOrder ==
    << [schema |-> input.headers, label |-> "Header: "],
       [schema |-> input.params, label |-> "Path parameter: "],
       [schema |-> input.querystring, label |-> "Query parameter: "],
       [schema |-> input.body, label |-> "Body parameter: "] >>

\* the positions of the groups that declare the key
DeclaringGroups(key) == { g \in 1..4 : Declares(GroupsInOrder[g].schema, key) }

\* C18: when a property key is declared in more than one of the groups
\* headers, path params, query, body, the one entry of
\* inputSchema.properties for it is the one built from the latest declaring
\* group in that order; the result has type "object" and title = route
\* name + "Parameters", and required is absent exactly when no group lists
\* one of its declared properties as required.
C18_LatestGroupWins ==
    reply.op = "inputSchema" =>
        LET properties == Field(reply.inputSchema, "properties")
            required == Field(reply.inputSchema, "required")
        IN /\ Field(reply.inputSchema, "type") = S("object")
           /\ Field(reply.inputSchema, "title") = StrN(input.name.s \o <<"Parameters">>)
           /\ \A key \in { <<"a">>, <<"b">>, <<"c">> } :
                 /\ Cardinality({ n \in 1..Len(properties.c) : properties.c[n].key = key })
                       = IF DeclaringGroups(key) = {} THEN 0 ELSE 1
                 /\ DeclaringGroups(key) # {} =>
                       LET g == CHOOSE x \in DeclaringGroups(key) :
                                    \A y \in DeclaringGroups(key) : y <= x
                           schema == Get(Field(GroupsInOrder[g].schema, "properties"), key)
                       IN Get(properties, key) =
                             Obj(<<E("type", Field(schema, "type")),
                                   [key |-> <<"title">>, val |-> StrN(key)],
                                   E("description",
                                     IF g = 1 /\ Field(schema, "description").k = "string"
                                     THEN Field(schema, "description")
                                     ELSE StrN(<<GroupsInOrder[g].label>> \o key))>>)
           /\ (required.k = "undefined") <=>
                 ~\E g \in 1..4, key \in { <<"a">>, <<"b">>, <<"c">> } :
                     /\ g \in DeclaringGroups(key)
                     /\ Includes(Field(GroupsInOrder[g].schema, "required"), key)
           /\ required.k # "undefined" =>
                 /\ required.k = "array"
                 /\ \A key \in { <<"a">>, <<"b">>, <<"c">> } :
                       Includes(required, key) <=>
                          \E g \in DeclaringGroups(key) :
                              Includes(Field(GroupsInOrder[g].schema, "required"), key)

\* a key that all four groups declare has the entry built from the body
\* group, and required is present
C18_Witness ==
    /\ reply.op = "inputSchema"
    /\ DeclaringGroups(<<"a">>) = 1..4
    /\ Field(Get(Field(reply.inputSchema, "properties"), <<"a">>), "description")
          = StrN(<<"Body parameter: ", "a">>)
    /\ Field(Get(Field(reply.inputSchema, "properties"), <<"a">>), "type") = S("number")
    /\ Field(reply.inputSchema, "required").k = "array"

-----------------------------------------------------------------------------
(* Claims on the dispatch of a call among routes of one name *)

\* the registry positions of the routes with the name that pass the filter
NamedAndAccepted(name) ==
    { i \in 1..Len(routes) : routes[i].name = name /\ Accepted(options, routes[i]) }

\* C19: when a call-tool request names a tool and several routes that pass
\* the filter have that name, the call is dispatched to the one registered
\* earliest among them and to no other: the one request it makes is a
\* request of that route.
C19_FirstMatchDispatch ==
    (reply.op = "call" /\ NamedAndAccepted(reply.name) # {}) =>
        LET first == CHOOSE i \in NamedAndAccepted(reply.name) :
                        \A j \in NamedAndAccepted(reply.name) : i <= j
        IN /\ reply.target = origin[first]
           /\ Len(reply.injected) <= 1
           /\ \A n \in 1..Len(reply.injected) :
                 /\ reply.injected[n].method = Head(routes[first].methods)
                 /\ Head(Tail(reply.injected[n].url)) = Head(Tail(routes[first].url))

\* two routes of one name pass the filter, with different methods, and the
\* request made is one of the first
C19_Witness ==
    /\ reply.op = "call"
    /\ Cardinality(NamedAndAccepted(reply.name)) = 2
    /\ Len(reply.injected) = 1
    /\ \E i, j \in NamedAndAccepted(reply.name) :
          /\ i < j
          /\ Head(routes[i].methods) # Head(routes[j].methods)
          /\ routes[i].url # routes[j].url
          /\ reply.injected[1].method = Head(routes[i].methods)

-----------------------------------------------------------------------------
(* Claims on the two transport modes *)

\* the transport type the plugin was registered with
Stateless == Field(options, "transportType") = S("streamableHttp")
SessionBased == Field(options, "transportType") = S("sse")

\* C21: in streamableHttp mode one shared channel is made and connected,
\* once, at plugin start; every request to POST {mount} is handled by it;
\* no request adds or removes a session-map entry; GET {mount}/sse and
\* POST {mount}/messages are not served. In sse mode POST {mount} is not
\* served and no shared channel exists.
C21_StatelessModeSharesOneChannel ==
    /\ [](Stateless =>
            /\ streamableTransport.created = 1
            /\ streamableTransport.connects = 1
            /\ activeTransports = <<>>
            /\ \A id \in SessionIds : conn[id] = "unused" /\ inbox[id] = 0
            /\ reply.op \in {"none", "streamable", "unrouted"}
            /\ reply.op = "unrouted" => reply.endpoint \in {"GET /sse", "POST /messages"})
    /\ [](SessionBased =>
            /\ streamableTransport = [created |-> 0, connects |-> 0, handled |-> 0]
            /\ reply.op # "streamable"
            /\ reply.op = "unrouted" => reply.endpoint = "POST /")
    /\ [][(reply'.op = "streamable" /\ vars' # vars) =>
             streamableTransport' = [streamableTransport EXCEPT !.handled = @ + 1]]_vars

\* in streamableHttp mode the shared channel has handled a request and a
\* request to the messages endpoint went unserved
C21_Witness ==
    /\ Stateless
    /\ streamableTransport.handled > 0
    /\ reply.op = "unrouted"
    /\ reply.endpoint = "POST /messages"

-----------------------------------------------------------------------------
(* The example generator on schema nodes *)

\* scalar nodes of every type (or none), with an example and a default
\* that are absent, falsy or truthy; arrays and objects, typed or inferred,
\* with and without items and properties, over a few of the scalar nodes
InitExample ==
    /\ LET Given1 == { <<>>, <<Num("0")>>, <<Num("42")>>, <<StrN(<<>>)>>, <<S("x")>>,
                       <<False>>, <<True>> }
           Scalars == { Obj([i \in 1..Len(type) |-> E("type", type[i])]
                            \o [i \in 1..Len(example) |-> E("example", example[i])]
                            \o [i \in 1..Len(default) |-> E("default", default[i])]) :
                           type \in { <<>>, <<S("string")>>, <<S("number")>>, <<S("integer")>>,
                                      <<S("boolean")>> },
                           example \in Given1, default \in Given1 }
           Children == { Obj(<<E("type", S("string"))>>),
                         Obj(<<E("type", S("integer")), E("example", Num("42"))>>),
                         Obj(<<E("type", S("number")), E("example", Num("0")),
                               E("default", Num("42"))>>),
                         Obj(<<E("type", S("array")),
                               E("items", Obj(<<E("type", S("boolean")), E("default", True)>>))>>),
                         Obj(<<E("properties", Obj(<<E("id", Obj(<<E("type", S("integer"))>>))>>))>>) }
           Typed(type) == { <<>>, <<E("type", S(type))>> }
           Arrays == { Obj(type \o <<E("items", x)>>) : type \in Typed("array"), x \in Children }
                     \cup { Obj(<<E("type", S("array"))>>),
                            Obj(<<E("type", S("array")), E("example", Arr(<<S("x")>>))>>) }
           Objects == { Obj(type \o <<E("properties", Obj(<<E("a", x), E("b", y)>>))>>) :
                           type \in Typed("object"), x \in Children, y \in Children }
                      \cup { Obj(<<E("type", S("object"))>>),
                             Obj(<<E("type", S("object")), E("properties", Obj(<<>>))>>) }
       IN input \in Scalars \cup Arrays \cup Objects
    /\ options = MergeOptions(Obj(<<>>))
    /\ routes = <<>>
    /\ origin = <<>>
    /\ events = <<>>
    /\ reply = [op |-> "none"]
    /\ NoSessions

\* one call of generateExampleFromSchema(schema)
GenerateExample ==
    /\ reply.op = "none"
    /\ reply' = [op |-> "example", value |-> generateExampleFromSchema(input)]
    /\ UNCHANGED <<options, routes, origin, events, activeTransports, conn, inbox, input,
                   streamableTransport>>

SpecExample == InitExample /\ [][GenerateExample]_vars

RECURSIVE StatedExample(_)
\* the example stated for a node: by its inferred type, the example field
\* if the node has one, else the default field if it has one, else the
\* placeholder; a one-element array of the item example or []; an object
\* of the property examples or {}
StatedExample(schema) ==
    LET type == getSchemaType(schema)
        placeholder == CASE type = S("string") -> S("string")
                         [] type = S("boolean") -> False
                         [] OTHER -> Num("0")
    IN CASE type \in {S("string"), S("number"), S("integer"), S("boolean")} ->
               IF HasKey(schema, <<"example">>) THEN Field(schema, "example")
               ELSE IF HasKey(schema, <<"default">>) THEN Field(schema, "default")
               ELSE placeholder
         [] type = S("array") ->
               IF HasKey(schema, <<"items">>)
               THEN Arr(<<StatedExample(Field(schema, "items"))>>)
               ELSE Arr(<<>>)
         [] type = S("object") ->
               IF HasKey(schema, <<"properties">>)
               THEN Obj([i \in 1..Len(Field(schema, "properties").c) |->
                           [key |-> Field(schema, "properties").c[i].key,
                            val |-> StatedExample(Field(schema, "properties").c[i].val)]])
               ELSE Obj(<<>>)
         [] OTHER -> Undef

\* C22 (as claimed): generateExampleFromSchema returns, for a node whose
\* inferred type is string, number, integer or boolean, the node's example
\* field if it has one, else its default field if it has one, else the
\* placeholder "string", 0, 0 or false; for an array node a one-element
\* array of the item example when items is present and [] otherwise; for
\* an object node an object with one synthesized value per declared
\* property when properties is present and {} otherwise.
C22_ExampleDefaultPlaceholder ==
    reply.op = "example" => reply.value = StatedExample(input)

RECURSIVE GivesFalsy(_)
\* the node, or a node under it, has an example or a default that is falsy
GivesFalsy(schema) ==
    \/ HasKey(schema, <<"example">>) /\ ~Truthy(Field(schema, "example"))
    \/ HasKey(schema, <<"default">>) /\ ~Truthy(Field(schema, "default"))
    \/ \E i \in 1..Len(schema.c) :
          schema.c[i].key \notin {<<"example">>, <<"default">>} /\ GivesFalsy(schema.c[i].val)

\* the same statement of the nodes whose examples and defaults are truthy
ExampleAsStatedWhenFieldsAreTruthy ==
    (reply.op = "example" /\ ~GivesFalsy(input)) => reply.value = StatedExample(input)

-----------------------------------------------------------------------------
(* Two registrations of the plugin in one process *)

\* the plugin registered on two servers of the process, both in sse mode
Instances == {1, 2}

\* GET {mount}/sse of one instance up to its await: the transport writes to
\* the response of that instance and is connected to its mcpServer; it is
\* stored in the module's activeTransports
SseConnectOn(instance, id) ==
    /\ SseMode
    /\ conn[id] = "unused"
    /\ activeTransports' = MapSet(activeTransports, id, [server |-> instance] @@ Transport(id))
    /\ conn' = [conn EXCEPT ![id] = "connecting"]
    /\ reply' = [op |-> "sse", sessionId |-> id, instance |-> instance]
    /\ UNCHANGED <<options, routes, origin, events, inbox, input, streamableTransport>>

\* POST {mount}/messages?sessionId=<sessionId> of one instance run to its
\* end: the handler looks the identifier up in the module's activeTransports
PostMessageOn(instance, sessionId, outcome) ==
    /\ SseMode
    /\ IF sessionId \notin DOMAIN activeTransports
       THEN /\ reply' = [op |-> "post", instance |-> instance, sessionId |-> sessionId,
                         status |-> 404, body |-> SessionNotFound]
            /\ UNCHANGED inbox
       ELSE IF outcome = "throws"
       THEN /\ reply' = [op |-> "post", instance |-> instance, sessionId |-> sessionId,
                         status |-> 500, body |-> InternalServerError]
            /\ UNCHANGED inbox
       ELSE /\ inbox[sessionId] < MaxInbox
            /\ inbox' = [inbox EXCEPT ![sessionId] = @ + 1]
            /\ reply' = [op |-> "post", instance |-> instance, sessionId |-> sessionId,
                         status |-> 202, body |-> Undef]
    /\ UNCHANGED <<options, routes, origin, events, activeTransports, conn, input,
                   streamableTransport>>

InitInstances == InitSession /\ SseMode

NextInstances ==
    \/ \E instance \in Instances, id \in SessionIds : SseConnectOn(instance, id)
    \/ Connected
    \/ Close
    \/ \E instance \in Instances, sessionId \in PostedIds, outcome \in {"accepts", "throws"} :
          PostMessageOn(instance, sessionId, outcome)

SpecInstances == InitInstances /\ [][NextInstances]_vars

\* the session has a live channel made by a connection to another instance
\* than the one asked
MadeElsewhere(sessionId, instance) ==
    /\ sessionId \in DOMAIN activeTransports
    /\ activeTransports[sessionId].server # instance

\* C23 (as claimed): the session-to-channel mapping belongs to one plugin
\* instance: a message carrying the identifier of a session created by a
\* streaming connection to one instance, sent to the messages endpoint of
\* a different instance in the same process, is answered not-found and
\* reaches no channel.
C23_SessionsBelongToOneInstance ==
    [][(reply'.op = "post" /\ MadeElsewhere(reply'.sessionId, reply'.instance))
          => (reply'.status = 404 /\ inbox' = inbox)]_vars

\* within the instance that made it, and for identifiers no live channel
\* has, the messages endpoint answers as the claim says
SessionsReachableThroughTheirInstance ==
    [][(reply'.op = "post" /\ ~MadeElsewhere(reply'.sessionId, reply'.instance))
          => IF reply'.sessionId \in DOMAIN activeTransports
             THEN reply'.status \in {202, 500}
             ELSE reply'.status = 404 /\ inbox' = inbox]_vars

-----------------------------------------------------------------------------
(* Claims on the status of the response *)

\* the result stated for a body: one text block and nothing else, the text
\* determined by the body
StatedResult(body) ==
    [content |-> <<[type |-> "text",
                    text |-> IF body.json THEN Pretty(body.value, 0) ELSE body.body]>>]

\* C24 (as claimed): the result of a dispatched tool call is a function of
\* the response body alone: the status is never inspected, so a route
\* answering with any status, 4xx and 5xx included, yields the normal
\* single-text-block result with no error flag and no failure, and the
\* call fails only when the request-execution primitive (or the formatter,
\* which catches whatever its parsing throws) throws.
C24_ResultIsFunctionOfBodyAlone ==
    reply.op = "dispatched" =>
        /\ reply.done.failed <=> reply.rejects
        /\ ~reply.rejects => reply.done.result = StatedResult(input)

\* the same statement of the requests that carry an arguments object
ResultIsFunctionOfBodyGivenArguments ==
    (reply.op = "dispatched" /\ IsObject(reply.args)) =>
        /\ reply.done.failed <=> reply.rejects
        /\ ~reply.rejects => reply.done.result = StatedResult(input)

====
